---------------------------- MODULE Spec2Model ----------------------------
(***************************************************************************)
(* A model of the news curation service: the curation functions of         *)
(* modules/curation.py (normalize_title, is_advertorial, map_category,     *)
(* deduplicate, curate), the age filter and the fetch loop of              *)
(* modules/crawler.py (_filter_by_age, crawl_naver_news), the settings     *)
(* file of modules/keyword_store.py, the review store of modules/store.py, *)
(* the Slack message and its delivery of modules/slack.py, and the routes  *)
(* of app.py.                                                              *)
(*                                                                         *)
(* Strings the code inspects character by character (titles, URLs,         *)
(* keywords) are sequences of one-character strings.  The module keeps to  *)
(* ASCII, so a lower-case Latin letter also stands in for a Korean         *)
(* syllable (both are left alone by str.lower()):                          *)
(*     광고 = <<"g","o">>     협찬 = <<"h","c">>    제휴 = <<"j","h">>     *)
(*     프로모션 = <<"p","r","m","s">>                                      *)
(* Category names are never inspected, they are atoms:                     *)
(*     그룹사 = "grupsa"  업계 = "eopgye"  참고 = "chamgo"                 *)
(*     읽을거리 = "ilgeulgeori"                                            *)
(* A dict is a function from its keys (article records) or, where the      *)
(* code depends on the iteration order, a sequence of key/value pairs      *)
(* (keywords_by_category).                                                 *)
(***************************************************************************)
EXTENDS Integers, Sequences, FiniteSets, TLC

VARIABLES
    pc,                     \* position of the running call
    articles,               \* argument `articles` of deduplicate / curate
    keywords_by_category,   \* argument `keywords_by_category`
    title,                  \* argument `title` of map_category
    kept,                   \* positions in `articles` of the list `result` of deduplicate
    result,                 \* list returned by deduplicate / curate
    category,               \* value returned by map_category
    \* crawl_naver_news: its environment and arguments
    cfg_ready,              \* cfg.enabled and cfg.client_id and cfg.client_secret
    stored,                 \* what keyword_store's getters return
    keywords,               \* argument `keywords`
    user_keywords,          \* argument, None is <<>> and a value v is <<v>>
    user_max_articles,      \* argument, None is <<>> and a value v is <<v>>
    user_category_keywords, \* argument, None is <<>> and a value v is <<v>>
    user_max_age_hours,     \* argument, None is <<>> and a value v is <<v>>
    now,                    \* datetime.now(timezone.utc), in minutes
    \* crawl_naver_news: its locals
    kw_list,
    max_per_keyword,
    kw_index,               \* position in kw_list of the loop variable `kw`
    remaining,
    batch,
    attempts,
    success,
    raw_articles,
    failures,
    max_age_hours,
    \* crawl_naver_news: what it did to the provider and the clock
    calls,                  \* the calls of _fetch_naver_news_api, in order
    page_no,                \* how many page requests were started
    sleeps,                 \* how many times time.sleep was called
    \* keyword_store
    file,                   \* data/keywords.json
    \* calls of normalize_title and _filter_by_age on their own
    normalized,             \* normalize_title(title)
    renormalized,           \* normalize_title(normalize_title(title))
    filter_result,          \* list returned by _filter_by_age
    \* the review store (modules/store.py) and the routes that use it
    heap,                   \* the list objects alive, by identity
    self_articles,          \* store._articles: the identity of a list in heap
    op,                     \* the last store operation or route, with its arguments
    ret,                    \* what it returned
    before,                 \* the articles of the store when it was called
    \* a request that populates the store while another one reads it
    w_pc,                   \* position of the thread in set_articles
    w_batch,                \* its argument `articles`
    w_new,                  \* identity of the list its comprehension is building
    populates,              \* calls of set_articles started
    r_pc,                   \* position of the thread in list_articles / get_selected
    r_kind,                 \* which of the two it runs
    r_ref,                  \* identity of the list its comprehension iterates
    r_pos,                  \* articles it has visited
    r_out,                  \* the list its comprehension is building
    snapshots,              \* the lists store._articles was bound to since the
                            \* reading thread began
    \* modules/slack.py
    slack_articles,         \* argument `articles`
    slack_configured,       \* cfg.bot_token and cfg.channel_id are both set
    slack_outcomes,         \* what the attempts to call the Slack API meet, in order
    slack_text,             \* value returned by format_slack_message
    slack_result,           \* how send_message_to_slack ended
    \* keyword_store: the update_* calls that are running
    updaters                \* per thread: position, local `data`, value returned

pureVars == <<articles, keywords_by_category, title, kept, result, category>>

crawlVars ==
    <<cfg_ready, stored, keywords, user_keywords, user_max_articles,
      user_category_keywords, user_max_age_hours, now, kw_list,
      max_per_keyword, kw_index, remaining, batch, attempts, success,
      raw_articles, failures, max_age_hours, calls, page_no, sleeps>>

fileVars == <<file>>

callVars == <<normalized, renormalized, filter_result>>

storeVars == <<heap, self_articles, op, ret, before>>

threadVars ==
    <<w_pc, w_batch, w_new, populates, r_pc, r_kind, r_ref, r_pos, r_out,
      snapshots>>

slackVars ==
    <<slack_articles, slack_configured, slack_outcomes, slack_text,
      slack_result>>

updateVars == <<updaters>>

otherVars ==
    <<fileVars, callVars, storeVars, threadVars, slackVars, updateVars>>

-----------------------------------------------------------------------------
(* Python string primitives, on sequences of characters                     *)

\* str.lower(), on the letters the model uses
LowerChar(c) ==
    CASE c = "A" -> "a"
      [] c = "G" -> "g"
      [] c = "M" -> "m"
      [] c = "O" -> "o"
      [] OTHER -> c

lower(s) == [i \in 1..Len(s) |-> LowerChar(s[i])]

\* the characters matched by \s and removed by str.strip()
Whitespace == {" ", "\t", "\n"}

RECURSIVE lstrip(_)
lstrip(s) ==
    IF s # <<>> /\ Head(s) \in Whitespace THEN lstrip(Tail(s)) ELSE s

RECURSIVE rstrip(_)
rstrip(s) ==
    IF s # <<>> /\ s[Len(s)] \in Whitespace
    THEN rstrip(SubSeq(s, 1, Len(s) - 1))
    ELSE s

strip(s) == rstrip(lstrip(s))

\* the Python test `p in s` on strings
IsSubstring(p, s) ==
    \E i \in 0..(Len(s) - Len(p)) : SubSeq(s, i + 1, i + Len(p)) = p

\* dict.get(key, default)
Get(d, key, default) == IF key \in DOMAIN d THEN d[key] ELSE default

\* {**d, key: value}
WithKey(d, key, value) ==
    [k \in (DOMAIN d) \cup {key} |-> IF k = key THEN value ELSE d[k]]

-----------------------------------------------------------------------------
(* modules/curation.py                                                      *)

\* the character class [\[\]\(\)\{\}\-–—]; "~" and "_" stand in for the
\* en dash and the em dash
BracketsAndDashes == {"[", "]", "(", ")", "{", "}", "-", "~", "_"}

\* re.sub(r"\s+", " ", s): every maximal whitespace run becomes one space
RECURSIVE CollapseWhitespace(_)
CollapseWhitespace(s) ==
    IF s = <<>> THEN <<>>
    ELSE IF Head(s) \in Whitespace
         THEN <<" ">> \o CollapseWhitespace(lstrip(s))
         ELSE <<Head(s)>> \o CollapseWhitespace(Tail(s))

\* normalize_title trimming before the brackets are removed, not after the
\* whitespace is collapsed
normalize_title_strip_first(t) ==
    LET lowered == strip(lower(t))
        no_brackets == SelectSeq(lowered, LAMBDA c : c \notin BracketsAndDashes)
    IN  CollapseWhitespace(no_brackets)

\* normalize_title putting a space where it removes a bracket or a dash
normalize_title_space_for_bracket(t) ==
    LET lowered == lower(t)
        no_brackets == [i \in 1..Len(lowered) |->
                           IF lowered[i] \in BracketsAndDashes THEN " "
                           ELSE lowered[i]]
    IN  strip(CollapseWhitespace(no_brackets))

normalize_title(t) ==
    LET lowered == lower(t)
        no_brackets == SelectSeq(lowered, LAMBDA c : c \notin BracketsAndDashes)
    IN  strip(CollapseWhitespace(no_brackets))

CatchAll == "ilgeulgeori"

Categories == {"grupsa", "eopgye", "chamgo"}

ValidCategories == Categories \cup {CatchAll}

\* the inner loop `for kw in keywords: if kw.lower() in t`
KeywordHit(t, kws) ==
    \E j \in 1..Len(kws) : IsSubstring(lower(kws[j]), t)

RECURSIVE MapCategoryFrom(_, _, _)
MapCategoryFrom(t, kbc, i) ==
    IF i > Len(kbc) THEN CatchAll
    ELSE IF KeywordHit(t, kbc[i].keywords) THEN kbc[i].category
    ELSE MapCategoryFrom(t, kbc, i + 1)

\* map_category falling off its end without the final return (None)
map_category_no_catch_all(ttl, kbc) ==
    LET c == MapCategoryFrom(lower(ttl), kbc, 1)
    IN  IF \E i \in 1..Len(kbc) : KeywordHit(lower(ttl), kbc[i].keywords)
        THEN c ELSE "None"

\* map_category matching against the title as written
map_category_case_sensitive(ttl, kbc) == MapCategoryFrom(ttl, kbc, 1)

map_category(ttl, kbc) == MapCategoryFrom(lower(ttl), kbc, 1)

cues == {<<"g", "o">>, <<"h", "c">>, <<"j", "h">>, <<"p", "r", "m", "s">>}

is_advertorial(ttl) ==
    LET lt == lower(ttl) IN \E cue \in cues : IsSubstring(cue, lt)

\* DedupStep without the URL check
DedupStepTitleOnly(arts, i, st) ==
    LET norm_title == normalize_title(Get(arts[i], "title", <<>>))
    IN  IF norm_title # <<>> /\ norm_title \notin st.seen_titles
        THEN [seen_titles |-> st.seen_titles \cup {norm_title},
              seen_urls   |-> st.seen_urls,
              kept        |-> Append(st.kept, i)]
        ELSE st

\* DedupStep with the seen sets extended by the skipped articles as well
DedupStepRecordsSkipped(arts, i, st) ==
    LET art == arts[i]
        url == strip(Get(art, "url", <<>>))
        norm_title == normalize_title(Get(art, "title", <<>>))
        seen == [seen_titles |-> IF norm_title # <<>>
                                 THEN st.seen_titles \cup {norm_title}
                                 ELSE st.seen_titles,
                 seen_urls   |-> IF url # <<>> THEN st.seen_urls \cup {url}
                                               ELSE st.seen_urls,
                 kept        |-> st.kept]
    IN  IF url # <<>> /\ url \in st.seen_urls THEN seen
        ELSE IF norm_title # <<>> /\ norm_title \notin st.seen_titles
        THEN [seen EXCEPT !.kept = Append(st.kept, i)]
        ELSE seen

\* One iteration of the loop of deduplicate on articles[i].  `kept` is the
\* list `result`, held as the positions of the appended articles (the code
\* appends the input objects themselves).
DedupStep(arts, i, st) ==
    LET art == arts[i]
        url == strip(Get(art, "url", <<>>))
        norm_title == normalize_title(Get(art, "title", <<>>))
    IN  IF url # <<>> /\ url \in st.seen_urls THEN st
        ELSE IF norm_title # <<>> /\ norm_title \notin st.seen_titles
        THEN [seen_titles |-> st.seen_titles \cup {norm_title},
              seen_urls   |-> IF url # <<>> THEN st.seen_urls \cup {url}
                                            ELSE st.seen_urls,
              kept        |-> Append(st.kept, i)]
        ELSE st

\* DedupLoop visiting the articles from the last to the first
RECURSIVE DedupLoopBackwards(_, _, _)
DedupLoopBackwards(arts, i, st) ==
    IF i > Len(arts) THEN st
    ELSE DedupLoopBackwards(arts, i + 1,
                            DedupStep(arts, Len(arts) + 1 - i, st))

\* The iterations of the loop of deduplicate on articles[lo..hi], in order.
\* The range is run as its first half followed by its second half, which
\* is the same sequence of iterations; the test on `first` has TLC finish
\* the first half before it starts the second, so that a batch of a
\* hundred articles is evaluated without deep nesting.
RECURSIVE DedupRange(_, _, _, _)
DedupRange(arts, lo, hi, st) ==
    IF lo > hi THEN st
    ELSE IF lo = hi THEN DedupStep(arts, lo, st)
    ELSE LET mid == (lo + hi) \div 2
             first == DedupRange(arts, lo, mid, st)
         IN  IF Len(first.kept) <= mid
             THEN DedupRange(arts, mid + 1, hi, first)
             ELSE first

\* `for art in articles:` from articles[i] on
DedupLoop(arts, i, st) == DedupRange(arts, i, Len(arts), st)

\* the positions, in `articles`, of the articles deduplicate returns
deduplicate_kept(arts) ==
    DedupLoop(arts, 1, [seen_titles |-> {}, seen_urls |-> {}, kept |-> <<>>]).kept

deduplicate(arts) ==
    LET pos == deduplicate_kept(arts)
    IN  [n \in 1..Len(pos) |-> arts[pos[n]]]

\* curate removing the advertorial items after deduplicate
curate_dedup_first(arts, kbc) ==
    LET unique == deduplicate(arts)
        filtered == SelectSeq(unique,
                        LAMBDA a : ~is_advertorial(Get(a, "title", <<>>)))
    IN  [n \in 1..Len(filtered) |->
            WithKey(filtered[n], "category",
                    map_category(Get(filtered[n], "title", <<>>), kbc))]

curate(arts, kbc) ==
    LET filtered == SelectSeq(arts,
                        LAMBDA a : ~is_advertorial(Get(a, "title", <<>>)))
        unique == deduplicate(filtered)
    IN  [n \in 1..Len(unique) |->
            WithKey(unique[n], "category",
                    map_category(Get(unique[n], "title", <<>>), kbc))]

\* curate, with the objects it is given -------------------------------------
\* `objs` are the dicts of the argument `articles`, by position; `unique`
\* holds some of these same objects, src[n] is the position of unique[n].

\* lines 106-109 with `a["category"] = category` and `curated.append(a)`
CurateStepInPlace(objs, pos, kbc) ==
    LET a2 == WithKey(objs[pos], "category",
                      map_category(Get(objs[pos], "title", <<>>), kbc))
    IN  [objects |-> [objs EXCEPT ![pos] = a2], a2 |-> a2]

\* lines 106-109: one iteration of `for a in unique:`; a2 is a new dict
CurateStep(objs, pos, kbc) ==
    [objects |-> objs,
     a2 |-> WithKey(objs[pos], "category",
                    map_category(Get(objs[pos], "title", <<>>), kbc))]

\* lines 106-110: the loop from unique[n] on
RECURSIVE CurateLoop(_, _, _, _, _)
CurateLoop(objs, src, n, kbc, curated) ==
    IF n > Len(src) THEN [objects |-> objs, curated |-> curated]
    ELSE LET step == CurateStep(objs, src[n], kbc)
         IN  CurateLoop(step.objects, src, n + 1, kbc,
                        Append(curated, step.a2))

\* lines 103-104: the positions in `articles` of the objects of `unique`
UniquePositions(arts) ==
    LET fpos == SelectSeq([i \in 1..Len(arts) |-> i],
                          LAMBDA i : ~is_advertorial(Get(arts[i], "title", <<>>)))
        upos == deduplicate_kept([n \in 1..Len(fpos) |-> arts[fpos[n]]])
    IN  [n \in 1..Len(upos) |-> fpos[upos[n]]]

\* lines 97-110: the arguments as the call leaves them, and what it returns
curate_run(arts, kbc) ==
    LET src == UniquePositions(arts)
        run == CurateLoop(arts, src, 1, kbc, <<>>)
    IN  [articles |-> run.objects, keywords_by_category |-> kbc,
         src |-> src, curated |-> run.curated]

-----------------------------------------------------------------------------
(* Inputs                                                                   *)

\* longest batch handed to deduplicate / curate
MaxItems == 3

SeqsUpTo(S, n) == UNION {[1..k -> S] : k \in 0..n}

\* an article record with the given keys; NoKey leaves the key out
NoKey == <<"<absent>">>

Article(ttl, url) ==
    [k \in {x \in {"title", "url"} :
               (x = "title" /\ ttl # NoKey) \/ (x = "url" /\ url # NoKey)}
        |-> IF k = "title" THEN ttl ELSE url]

\* titles for deduplicate: absent, brackets/dashes/blank only, "a", "[A]"
\* (same normalized title as "a"), "b"
DedupTitles ==
    {NoKey, <<"[", "-", " ">>, <<"a">>, <<"[", "A", "]">>, <<"b">>}

\* URLs for deduplicate: absent, "u", " u" (same URL once trimmed), "v"
DedupUrls == {NoKey, <<"u">>, <<" ", "u">>, <<"v">>}

DedupItems == {Article(t, u) : t \in DedupTitles, u \in DedupUrls}

\* titles for curate: "GO" (the cue 광고 in capitals), "g-o" (no cue in it,
\* normalized to the same title), "m", "[M]" (same normalized title as "m"),
\* "[]" (empty normalized title)
CurateTitles ==
    {<<"G", "O">>, <<"g", "-", "o">>, <<"m">>, <<"[", "M", "]">>, <<"[", "]">>}

CurateUrls == {<<"u">>, <<"v">>}

CurateItems == {Article(t, u) : t \in CurateTitles, u \in CurateUrls}

Mapping(cats, kws) ==
    [i \in 1..Len(cats) |-> [category |-> cats[i], keywords |-> kws[i]]]

\* keyword mappings for curate: the three categories in the default order,
\* two of them in another order with a title matching both, the empty dict
CurateMappings ==
    { Mapping(<<"grupsa", "eopgye", "chamgo">>,
              << <<<<"x">>>>, <<<<"x">>, <<"M">>>>, <<>> >>),
      Mapping(<<"chamgo", "grupsa">>, << <<<<"m">>>>, <<<<"m">>, <<"o">>>> >>),
      <<>> }

\* longest title handed to map_category
MaxCategoryTitleLen == 2

CategoryTitles == SeqsUpTo({"m", "M", "x"}, MaxCategoryTitleLen)

\* keyword lists for map_category
CategoryKeywordLists == { <<>>, <<<<"m">>>>, <<<<"X">>, <<"m", "x">>>> }

\* the orders in which a dict can hold distinct categories
CategoryOrders ==
    {cats \in SeqsUpTo(Categories, Cardinality(Categories)) :
        \A i, j \in 1..Len(cats) : i # j => cats[i] # cats[j]}

CategoryMappings ==
    UNION { {Mapping(cats, kws) : kws \in [1..Len(cats) -> CategoryKeywordLists]} :
            cats \in CategoryOrders }

DefaultMapping ==
    << [category |-> "grupsa", keywords |-> <<>>],
       [category |-> "eopgye", keywords |-> <<>>],
       [category |-> "chamgo", keywords |-> <<>>] >>

\* crawl_naver_news not called
CrawlIdle ==
    /\ cfg_ready = FALSE
    /\ stored = [query_keywords |-> <<>>, category_keywords |-> <<>>,
                 max_articles |-> 30, max_age_hours |-> 24]
    /\ keywords = <<>>
    /\ user_keywords = <<>>
    /\ user_max_articles = <<>>
    /\ user_category_keywords = <<>>
    /\ user_max_age_hours = <<>>
    /\ now = 0
    /\ kw_list = <<>>
    /\ max_per_keyword = 0
    /\ kw_index = 0
    /\ remaining = 0
    /\ batch = 0
    /\ attempts = 0
    /\ success = FALSE
    /\ raw_articles = <<>>
    /\ failures = 0
    /\ max_age_hours = <<>>
    /\ calls = <<>>
    /\ page_no = 0
    /\ sleeps = 0

\* data/keywords.json does not exist
NoFile == [exists |-> FALSE, valid |-> FALSE, data |-> <<>>]

\* normalize_title and _filter_by_age not called on their own
CallsIdle ==
    /\ normalized = <<>>
    /\ renormalized = <<>>
    /\ filter_result = <<>>

\* the review store as constructed (line 26 of store.py), no request running
StoreIdle ==
    /\ heap = [i \in {1} |-> <<>>]
    /\ self_articles = 1
    /\ op = [name |-> "__init__", url |-> <<>>, arg |-> <<>>]
    /\ ret = <<>>
    /\ before = <<>>
    /\ w_pc = "idle"
    /\ w_batch = <<>>
    /\ w_new = 0
    /\ populates = 0
    /\ r_pc = "idle"
    /\ r_kind = "list_articles"
    /\ r_ref = 0
    /\ r_pos = 0
    /\ r_out = <<>>
    /\ snapshots = {<<>>}

\* format_slack_message and send_message_to_slack not called
SlackIdle ==
    /\ slack_articles = <<>>
    /\ slack_configured = FALSE
    /\ slack_outcomes = <<>>
    /\ slack_text = <<>>
    /\ slack_result = <<>>

\* no update_* call of keyword_store running
UpdatersIdle == updaters = <<>>

\* nothing but the functions of curation.py and crawler.py is in use
OthersIdle ==
    /\ file = NoFile
    /\ CallsIdle
    /\ StoreIdle
    /\ SlackIdle
    /\ UpdatersIdle

-----------------------------------------------------------------------------
(* deduplicate applied to every batch of at most MaxItems articles          *)

InitDedup ==
    /\ pc = "start"
    /\ articles \in SeqsUpTo(DedupItems, MaxItems)
    /\ keywords_by_category = DefaultMapping
    /\ title = <<>>
    /\ kept = <<>>
    /\ result = <<>>
    /\ category = CatchAll
    /\ CrawlIdle
    /\ OthersIdle

CallDeduplicate ==
    /\ pc = "start"
    /\ kept' = deduplicate_kept(articles)
    /\ result' = deduplicate(articles)
    /\ pc' = "deduplicated"
    /\ UNCHANGED <<articles, keywords_by_category, title, category>>
    /\ UNCHANGED <<crawlVars, otherVars>>

vars == <<pc, pureVars, crawlVars, otherVars>>

NextDedup == CallDeduplicate

SpecDedup == InitDedup /\ [][NextDedup]_vars

\* the comparison keys of articles[i]
UrlOf(a) == strip(Get(a, "url", <<>>))
NormTitleOf(a) == normalize_title(Get(a, "title", <<>>))

SameUrl(a, b) == UrlOf(a) # <<>> /\ UrlOf(a) = UrlOf(b)
SameNormTitle(a, b) == NormTitleOf(a) = NormTitleOf(b)

\* `kept` lists positions of `articles` in increasing order and `result`
\* holds the articles at these positions
IsSubsequence ==
    /\ Len(result) = Len(kept)
    /\ \A n \in 1..Len(kept) :
          /\ kept[n] \in 1..Len(articles)
          /\ result[n] = articles[kept[n]]
          /\ \A m \in 1..(n - 1) : kept[m] < kept[n]

KeptPositions == {kept[n] : n \in 1..Len(kept)}

\* C1: the output of deduplicate holds no two elements with the same
\* non-empty trimmed URL and no two elements with the same normalized title.
C1_DedupNoSharedUrlOrTitle ==
    pc = "deduplicated" =>
        \A m, n \in 1..Len(result) :
            m < n => /\ ~SameUrl(result[m], result[n])
                     /\ ~SameNormTitle(result[m], result[n])

\* C1 witness: a batch with a duplicate in it was reduced to two articles.
C1_Witness ==
    /\ pc = "deduplicated"
    /\ Len(articles) = 3
    /\ Len(result) = 2
    /\ \E i, j \in 1..3 :
          /\ i < j
          /\ i \in KeptPositions
          /\ SameUrl(articles[i], articles[j])
          /\ NormTitleOf(articles[j]) # <<>>
          /\ ~SameNormTitle(articles[i], articles[j])

\* C2 as stated: the output is a subsequence of the input and, of the input
\* items that share a non-empty URL or a normalized title, only the earliest
\* in input order can be in the output.  Stated for the batches in which
\* every article has a non-empty normalized title.
C2_EarliestOfSharingItemsOnly ==
    (pc = "deduplicated"
       /\ \A i \in 1..Len(articles) : NormTitleOf(articles[i]) # <<>>) =>
        /\ IsSubsequence
        /\ \A j \in KeptPositions : \A i \in 1..(j - 1) :
              /\ ~SameUrl(articles[i], articles[j])
              /\ ~SameNormTitle(articles[i], articles[j])

\* C2 amended: the output is a subsequence of the input and no article of
\* the output shares a non-empty URL or a normalized title with an earlier
\* input article that is in the output as well (an earlier article that was
\* itself skipped does not block a later one).
C2_EarliestOfKeptItemsOnly ==
    pc = "deduplicated" =>
        /\ IsSubsequence
        /\ \A j \in KeptPositions : \A i \in 1..(j - 1) :
              (SameUrl(articles[i], articles[j])
                 \/ SameNormTitle(articles[i], articles[j]))
              => i \notin KeptPositions

\* C2 witness: the second article repeats the URL of the first under another
\* title and is skipped; the third repeats only the title of the second and
\* is in the output.
C2_Witness ==
    /\ pc = "deduplicated"
    /\ Len(articles) = 3
    /\ kept = <<1, 3>>
    /\ SameUrl(articles[1], articles[2])
    /\ ~SameNormTitle(articles[1], articles[2])
    /\ SameNormTitle(articles[2], articles[3])

\* C3: an article that neither duplicate check skips is in the output; in
\* particular one whose URL was not seen before and whose normalized title
\* is empty.
C3_EmptyTitleAccepted ==
    pc = "deduplicated" =>
        \A i \in 1..Len(articles) :
            (/\ NormTitleOf(articles[i]) = <<>>
             /\ \A h \in KeptPositions :
                   h < i => ~SameUrl(articles[h], articles[i]))
            => i \in KeptPositions

-----------------------------------------------------------------------------
(* curate applied to every batch of at most MaxItems articles               *)

InitCurate ==
    /\ pc = "start"
    /\ articles \in SeqsUpTo(CurateItems, MaxItems)
    /\ keywords_by_category \in CurateMappings
    /\ title = <<>>
    /\ kept = <<>>
    /\ result = <<>>
    /\ category = CatchAll
    /\ CrawlIdle
    /\ OthersIdle

CallCurate ==
    /\ pc = "start"
    /\ LET run == curate_run(articles, keywords_by_category)
       IN  /\ articles' = run.articles
           /\ keywords_by_category' = run.keywords_by_category
           /\ kept' = run.src
    /\ result' = curate(articles, keywords_by_category)
    /\ pc' = "curated"
    /\ UNCHANGED <<title, category>>
    /\ UNCHANGED <<crawlVars, otherVars>>

NextCurate == CallCurate

SpecCurate == InitCurate /\ [][NextCurate]_vars

TitleOf(a) == Get(a, "title", <<>>)

NotAdvertorial(a) == ~is_advertorial(TitleOf(a))

WithoutKey(d, key) == [k \in (DOMAIN d) \ {key} |-> d[k]]

\* C8: curate filters advertorial items, then deduplicates, then
\* categorizes: no output item has an advertorial title, the output is the
\* deduplicated list of the non-advertorial input items (so an advertorial
\* item suppresses nothing), each with the category of its title; one
\* advertorial item followed by two items of the same title yields exactly
\* one output item.
C8_CurateStageOrder ==
    pc = "curated" =>
        /\ \A n \in 1..Len(result) : NotAdvertorial(result[n])
        /\ [n \in 1..Len(result) |-> WithoutKey(result[n], "category")]
              = deduplicate(SelectSeq(articles, NotAdvertorial))
        /\ \A n \in 1..Len(result) :
              result[n].category
                  = map_category(TitleOf(result[n]), keywords_by_category)
        /\ (/\ Len(articles) = 3
            /\ ~NotAdvertorial(articles[1])
            /\ NotAdvertorial(articles[2])
            /\ TitleOf(articles[2]) = TitleOf(articles[3])
            /\ NormTitleOf(articles[2]) # <<>>) => Len(result) = 1

\* C8 witness: an advertorial item, then two items with one title, of which
\* the first has the URL and the normalized title of the advertorial item;
\* the output is that first item alone.
C8_Witness ==
    /\ pc = "curated"
    /\ Len(articles) = 3
    /\ ~NotAdvertorial(articles[1])
    /\ NotAdvertorial(articles[2])
    /\ SameUrl(articles[1], articles[2])
    /\ SameNormTitle(articles[1], articles[2])
    /\ TitleOf(articles[2]) = TitleOf(articles[3])
    /\ ~SameUrl(articles[2], articles[3])
    /\ Len(result) = 1
    /\ WithoutKey(result[1], "category") = articles[2]

-----------------------------------------------------------------------------
(* map_category applied to every title and keyword mapping                  *)

InitCategory ==
    /\ pc = "start"
    /\ articles = <<>>
    /\ keywords_by_category \in CategoryMappings
    /\ title \in CategoryTitles
    /\ kept = <<>>
    /\ result = <<>>
    /\ category = CatchAll
    /\ CrawlIdle
    /\ OthersIdle

CallMapCategory ==
    /\ pc = "start"
    /\ category' = map_category(title, keywords_by_category)
    /\ pc' = "categorized"
    /\ UNCHANGED <<articles, keywords_by_category, title, kept, result>>
    /\ UNCHANGED <<crawlVars, otherVars>>

NextCategory == CallMapCategory

SpecCategory == InitCategory /\ [][NextCategory]_vars

\* the positions of the categories with a keyword that occurs in the title,
\* compared without regard to case
MatchingPositions ==
    {i \in 1..Len(keywords_by_category) :
        \E j \in 1..Len(keywords_by_category[i].keywords) :
            IsSubstring(lower(keywords_by_category[i].keywords[j]), lower(title))}

-----------------------------------------------------------------------------
(* modules/crawler.py                                                       *)

\* Optional values: None is <<>>, a value v is <<v>>
None == <<>>
Some(v) == <<v>>

\* A pub_date string is held as what parsedate_to_datetime makes of it:
\*   kind "blank"      only whitespace (empty once stripped)
\*   kind "malformed"  parsedate_to_datetime raises ValueError / TypeError
\*   kind "naive"      a date without a time zone, `local` minutes
\*   kind "aware"      a date `local` minutes in a zone `tz` minutes east
PubDate(kind, local, tz) == [kind |-> kind, local |-> local, tz |-> tz]

NoPubDate == PubDate("blank", 0, 0)

MinutesPerHour == 60

\* pub_datetime once made aware and converted to UTC
UtcMinutes(d) == IF d.kind = "naive" THEN d.local ELSE d.local - d.tz

\* KeptByAge with `>` for `>=` in line 90
KeptByAgeStrict(article, hours, t) ==
    LET d == Get(article, "pub_date", NoPubDate)
    IN  /\ d.kind \notin {"blank", "malformed"}
        /\ UtcMinutes(d) > t - hours * MinutesPerHour

\* the test of the loop of _filter_by_age on one article
KeptByAge(article, hours, t) ==
    LET d == Get(article, "pub_date", NoPubDate)
    IN  /\ d.kind \notin {"blank", "malformed"}
        /\ UtcMinutes(d) >= t - hours * MinutesPerHour

\* _filter_by_age with `if max_age_hours is None` for line 64
filter_by_age_none_only(arts, max_age, t) ==
    IF max_age = None
    THEN arts
    ELSE SelectSeq(arts, LAMBDA a : KeptByAge(a, max_age[1], t))

\* _filter_by_age; max_age_hours is None or Some(hours), t is now
filter_by_age(arts, max_age, t) ==
    IF max_age = None \/ max_age[1] = 0 \/ max_age[1] <= 0
    THEN arts
    ELSE SelectSeq(arts, LAMBDA a : KeptByAge(a, max_age[1], t))

\* the page size the provider accepts at most
PageCap == 100

\* attempts per page request
MaxAttempts == 3

Min(a, b) == IF a < b THEN a ELSE b

\* a comma-separated keyword string is held as its list of fields
\* (the empty string is the empty list); [k.strip() for k in ... if k.strip()]
SplitKeywords(fields) ==
    LET stripped == [i \in 1..Len(fields) |-> strip(fields[i])]
    IN  SelectSeq(stripped, LAMBDA k : k # <<>>)

\* lines 121-131: user_keywords, else the keyword store, else `keywords`
ChooseKeywords ==
    IF user_keywords # None /\ user_keywords[1] # <<>>
    THEN SplitKeywords(user_keywords[1])
    ELSE IF stored.query_keywords # <<>>
         THEN SplitKeywords(stored.query_keywords)
         ELSE SplitKeywords(keywords)

\* lines 135-138
ChooseMaxPerKeyword ==
    IF user_max_articles # None THEN user_max_articles[1]
    ELSE stored.max_articles

\* lines 211-214 with `if user_max_age_hours:` for the test of line 211
ChooseMaxAgeHoursIfTruthy ==
    IF user_max_age_hours # None /\ user_max_age_hours[1] # 0
    THEN user_max_age_hours
    ELSE Some(stored.max_age_hours)

\* lines 211-214
ChooseMaxAgeHours ==
    IF user_max_age_hours # None THEN user_max_age_hours
    ELSE Some(stored.max_age_hours)

\* lines 221-224
ChooseCategoryKeywords ==
    IF user_category_keywords # None THEN user_category_keywords[1]
    ELSE stored.category_keywords

\* Advance leaving the keyword loop once a page request used up its attempts
RECURSIVE AdvanceAbortRun(_, _, _, _, _, _, _)
AdvanceAbortRun(at, k, rem, bat, att, suc, pages) ==
    CASE at = "inner" ->
            IF att < MaxAttempts /\ ~suc
            THEN [pc |-> "fetch", kw_index |-> k, remaining |-> rem,
                  batch |-> bat, attempts |-> att, success |-> suc,
                  pages |-> pages]
            ELSE IF ~suc
            THEN [pc |-> "filter", kw_index |-> k, remaining |-> rem,
                  batch |-> bat, attempts |-> att, success |-> suc,
                  pages |-> pages]
            ELSE AdvanceAbortRun("while", k, rem, bat, att, suc, pages)
      [] at = "while" ->
            IF rem > 0
            THEN AdvanceAbortRun("inner", k, rem, Min(PageCap, rem), 0, FALSE,
                                 pages + 1)
            ELSE AdvanceAbortRun("for", k, rem, bat, att, suc, pages)
      [] at = "for" ->
            IF k + 1 > Len(kw_list)
            THEN [pc |-> "filter", kw_index |-> k, remaining |-> rem,
                  batch |-> bat, attempts |-> att, success |-> suc,
                  pages |-> pages]
            ELSE AdvanceAbortRun("while", k + 1, max_per_keyword, bat, att,
                                 suc, pages)

\* Advance with one budget for all keywords: line 143 left out, a keyword
\* starts with what the keyword before it left of `remaining`
RECURSIVE AdvanceSharedBudget(_, _, _, _, _, _, _)
AdvanceSharedBudget(at, k, rem, bat, att, suc, pages) ==
    CASE at = "inner" ->
            IF att < MaxAttempts /\ ~suc
            THEN [pc |-> "fetch", kw_index |-> k, remaining |-> rem,
                  batch |-> bat, attempts |-> att, success |-> suc,
                  pages |-> pages]
            ELSE AdvanceSharedBudget("while", k, rem, bat, att, suc, pages)
      [] at = "while" ->
            IF rem > 0
            THEN AdvanceSharedBudget("inner", k, rem, Min(PageCap, rem), 0,
                                     FALSE, pages + 1)
            ELSE AdvanceSharedBudget("for", k, rem, bat, att, suc, pages)
      [] at = "for" ->
            IF k + 1 > Len(kw_list)
            THEN [pc |-> "filter", kw_index |-> k, remaining |-> rem,
                  batch |-> bat, attempts |-> att, success |-> suc,
                  pages |-> pages]
            ELSE AdvanceSharedBudget("while", k + 1,
                                     IF k = 0 THEN max_per_keyword ELSE rem,
                                     bat, att, suc, pages)

\* The loop heads of lines 141-149, from position `at` with the locals
\* (k, rem, bat, att, suc) on, up to the next call of the provider
\* (pc "fetch") or the end of the keyword loop (pc "filter"):
\*   at "for"    line 141, k is the position of the keyword just finished
\*   at "while"  line 144
\*   at "inner"  line 149
\* `pages` counts the page requests started on the way (lines 145-148).
RECURSIVE AdvanceFrom(_, _, _, _, _, _, _)
AdvanceFrom(at, k, rem, bat, att, suc, pages) ==
    CASE at = "inner" ->
            IF att < MaxAttempts /\ ~suc
            THEN [pc |-> "fetch", kw_index |-> k, remaining |-> rem,
                  batch |-> bat, attempts |-> att, success |-> suc,
                  pages |-> pages]
            ELSE AdvanceFrom("while", k, rem, bat, att, suc, pages)
      [] at = "while" ->
            IF rem > 0
            THEN AdvanceFrom("inner", k, rem, Min(PageCap, rem), 0, FALSE, pages + 1)
            ELSE AdvanceFrom("for", k, rem, bat, att, suc, pages)
      [] at = "for" ->
            IF k + 1 > Len(kw_list)
            THEN [pc |-> "filter", kw_index |-> k, remaining |-> rem,
                  batch |-> bat, attempts |-> att, success |-> suc,
                  pages |-> pages]
            ELSE AdvanceFrom("while", k + 1, max_per_keyword, bat, att, suc, pages)

\* lines 141-149, see AdvanceFrom
Advance(at, k, rem, bat, att, suc, pages) ==
    AdvanceFrom(at, k, rem, bat, att, suc, pages)

\* lines 160-166 without line 161: a full page leaves `remaining` as it was
OnFetchedNoSubtract(items, rem, bat) ==
    [remaining |-> IF Len(items) < bat THEN 0 ELSE rem,
     success   |-> TRUE]

\* lines 160-166 without lines 165-166: a short page is only subtracted
OnFetchedShortPageGoesOn(items, rem, bat) ==
    [remaining |-> rem - Len(items),
     success   |-> TRUE]

\* lines 160-166: the provider returned `items`
OnFetched(items, rem, bat) ==
    [remaining |-> IF Len(items) < bat THEN 0 ELSE rem - Len(items),
     success   |-> TRUE]

\* the except clause with a handler that raises again once the attempts are
\* used up
OnFetchErrorReraise(att, rem, fail) ==
    [attempts  |-> att + 1,
     failures  |-> IF att + 1 >= MaxAttempts THEN fail + 1 ELSE fail,
     remaining |-> IF att + 1 >= MaxAttempts THEN 0 ELSE rem,
     raised    |-> att + 1 >= MaxAttempts]

\* the except clause without line 172
OnFetchErrorKeepRemaining(att, rem, fail) ==
    [attempts  |-> att + 1,
     failures  |-> IF att + 1 >= MaxAttempts THEN fail + 1 ELSE fail,
     remaining |-> rem,
     raised    |-> FALSE]

\* lines 167-172: the provider raised.  `raised` says whether the exception
\* leaves the except clause.
OnFetchError(att, rem, fail) ==
    [attempts  |-> att + 1,
     failures  |-> IF att + 1 >= MaxAttempts THEN fail + 1 ELSE fail,
     remaining |-> IF att + 1 >= MaxAttempts THEN 0 ELSE rem,
     raised    |-> FALSE]

\* a delay after every other attempt only
AfterAttemptSleepsEveryOther(n) == IF n % 2 = 0 THEN n + 1 ELSE n

\* lines 173-174: the finally clause of one attempt
AfterAttemptSleeps(n) == n + 1

\* lines 179-208: the stub data.  One letter stands for one word of a title,
\* the URL is the last part of its path; day 0 is 13 Nov 2025.
StubArticles ==
    << [title |-> <<"d", ",", " ", "e", " ", "f", " ", "i">>, url |-> <<"a">>,
        description |-> <<"1">>, pub_date |-> PubDate("aware", 1016, 540)],
       [title |-> <<"k", " ", "l", ",", " ", "n", " ", "q">>, url |-> <<"b">>,
        description |-> <<"2">>, pub_date |-> PubDate("aware", 870, 540)],
       [title |-> <<"[", "g", "o", "]", " ", "u", " ", "p", "r", "m", "s", " ", "v">>,
        url |-> <<"c">>],
       [title |-> <<"d", ",", " ", "e", " ", "f", " ", "i">>,
        url |-> <<"a", "-", "d", "u", "p">>,
        description |-> <<"1">>, pub_date |-> PubDate("aware", 1016, 540)],
       [title |-> <<"w", " ", "y", " ", "z">>, url |-> <<"d">>,
        description |-> <<"3">>, pub_date |-> PubDate("aware", 735, 540)] >>

-----------------------------------------------------------------------------
(* crawl_naver_news, one action per provider call                           *)

Start ==
    /\ pc = "start"
    /\ IF cfg_ready
       THEN /\ kw_list' = ChooseKeywords
            /\ max_per_keyword' = ChooseMaxPerKeyword
            /\ pc' = "for"
            /\ UNCHANGED raw_articles
       ELSE /\ raw_articles' = StubArticles
            /\ pc' = "filter"
            /\ UNCHANGED <<kw_list, max_per_keyword>>
    /\ UNCHANGED <<pureVars, cfg_ready, stored, keywords, user_keywords,
                   user_max_articles, user_category_keywords,
                   user_max_age_hours, now, kw_index, remaining, batch,
                   attempts, success, failures, max_age_hours, calls,
                   page_no, sleeps, otherVars>>

\* the locals and pc after the loop heads ran from `at` on
Continue(at, k, rem, att, suc) ==
    LET next == Advance(at, k, rem, batch, att, suc, 0)
    IN  /\ pc' = next.pc
        /\ kw_index' = next.kw_index
        /\ remaining' = next.remaining
        /\ batch' = next.batch
        /\ attempts' = next.attempts
        /\ success' = next.success
        /\ page_no' = page_no + next.pages

EnterLoop ==
    /\ pc = "for"
    /\ Continue("for", 0, remaining, attempts, success)
    /\ UNCHANGED <<pureVars, cfg_ready, stored, keywords, user_keywords,
                   user_max_articles, user_category_keywords,
                   user_max_age_hours, now, kw_list, max_per_keyword,
                   raw_articles, failures, max_age_hours, calls, sleeps,
                   otherVars>>

\* the offset of a page that continues after the items already requested
StartOffsetAdvances(rem) == max_per_keyword - rem + 1

\* line 153: the `start` argument of every call, whatever is left to fetch
StartOffset(rem) == 1

\* the call of _fetch_naver_news_api about to be made
Call(ok, items) ==
    [kw_index |-> kw_index, query |-> kw_list[kw_index], display |-> batch,
     start |-> StartOffset(remaining), page |-> page_no, attempts |-> attempts, ok |-> ok,
     items |-> items]

\* one pass of the try statement in which the provider returns `items`
FetchOk(items) ==
    /\ pc = "fetch"
    /\ LET r == OnFetched(items, remaining, batch)
       IN  /\ raw_articles' = raw_articles \o items
           /\ calls' = Append(calls, Call(TRUE, items))
           /\ sleeps' = AfterAttemptSleeps(sleeps)
           /\ Continue("inner", kw_index, r.remaining, attempts, r.success)
    /\ UNCHANGED <<pureVars, cfg_ready, stored, keywords, user_keywords,
                   user_max_articles, user_category_keywords,
                   user_max_age_hours, now, kw_list, max_per_keyword,
                   failures, max_age_hours, otherVars>>

\* one pass of the try statement in which the provider raises
FetchFail ==
    /\ pc = "fetch"
    /\ LET r == OnFetchError(attempts, remaining, failures)
       IN  /\ failures' = r.failures
           /\ calls' = Append(calls, Call(FALSE, <<>>))
           /\ sleeps' = AfterAttemptSleeps(sleeps)
           /\ IF r.raised
              THEN /\ pc' = "raised"
                   /\ attempts' = r.attempts
                   /\ remaining' = r.remaining
                   /\ UNCHANGED <<kw_index, batch, success, page_no>>
              ELSE Continue("inner", kw_index, r.remaining, r.attempts, success)
    /\ UNCHANGED <<pureVars, cfg_ready, stored, keywords, user_keywords,
                   user_max_articles, user_category_keywords,
                   user_max_age_hours, now, kw_list, max_per_keyword,
                   raw_articles, max_age_hours, otherVars>>

\* the age filter applied to what deduplicate leaves of the aggregate
FilterByAgeAfterDedup ==
    /\ pc = "filter"
    /\ max_age_hours' = ChooseMaxAgeHours
    /\ raw_articles' = filter_by_age(deduplicate(raw_articles), max_age_hours', now)
    /\ pc' = "curate"
    /\ UNCHANGED <<pureVars, cfg_ready, stored, keywords, user_keywords,
                   user_max_articles, user_category_keywords,
                   user_max_age_hours, now, kw_list, max_per_keyword,
                   kw_index, remaining, batch, attempts, success, failures,
                   calls, page_no, sleeps, otherVars>>

\* lines 210-218
FilterByAge ==
    /\ pc = "filter"
    /\ max_age_hours' = ChooseMaxAgeHours
    /\ raw_articles' = filter_by_age(raw_articles, max_age_hours', now)
    /\ pc' = "curate"
    /\ UNCHANGED <<pureVars, cfg_ready, stored, keywords, user_keywords,
                   user_max_articles, user_category_keywords,
                   user_max_age_hours, now, kw_list, max_per_keyword,
                   kw_index, remaining, batch, attempts, success, failures,
                   calls, page_no, sleeps, otherVars>>

\* lines 220-227
Curate ==
    /\ pc = "curate"
    /\ keywords_by_category' = ChooseCategoryKeywords
    /\ result' = curate(raw_articles, keywords_by_category')
    /\ pc' = "done"
    /\ UNCHANGED <<articles, title, kept, category, crawlVars, otherVars>>

-----------------------------------------------------------------------------
(* The search provider and the settings of a collection run                 *)

\* longest keyword list of a run
MaxKeywords == 2

DigitChars == <<"0", "1", "2", "3", "4", "5", "6", "7", "8", "9">>

Digits(n) ==
    <<DigitChars[(n \div 100) + 1], DigitChars[((n \div 10) % 10) + 1],
      DigitChars[(n % 10) + 1]>>

\* what the mocked provider of test_integration_realdata.py returns: two
\* items with one title and an advertorial item, none with a pubDate
TestBatch ==
    << [title |-> <<"<", "b", ">", "d", "<", "/", "b", ">", " ", "e">>,
        url |-> <<"1">>],
       [title |-> <<"<", "b", ">", "d", "<", "/", "b", ">", " ", "e">>,
        url |-> <<"1", "-", "d", "u", "p">>],
       [title |-> <<"[", "g", "o", "]", " ", "u", " ", "p", "r", "m", "s">>,
        url |-> <<"a", "d">>] >>

\* an item published a minute before the 24 hour horizon and one published
\* at the horizon under the same title
DatedBatch ==
    << [title |-> <<"w">>, url |-> <<"o">>,
        pub_date |-> PubDate("naive", now - 24 * MinutesPerHour - 1, 0)],
       [title |-> <<"w">>, url |-> <<"f">>,
        pub_date |-> PubDate("aware", now - 15 * MinutesPerHour, 540)] >>

\* a page of exactly n items from the rank `start` on, an hour old; the
\* provider ranks the items of a query in one way
FullPage(start, n) ==
    [i \in 1..n |->
        [title |-> <<"n">> \o Digits(start + i - 1),
         url |-> Digits(start + i - 1),
         pub_date |-> PubDate("naive", now - MinutesPerHour, 0)]]

\* what a call of the provider for `display` items can return
ProviderResponses(start, display) ==
    {<<>>, TestBatch, DatedBatch, FullPage(start, display)}

\* the keyword mapping of test_integration_realdata.py
TestMapping ==
    Mapping(<<"grupsa", "eopgye", "chamgo">>, << <<<<"d">>>>, <<>>, <<>> >>)

\* comma-separated fields of a stored keyword string
KeywordFields == {<<"A">>, <<" ", "B">>}

\* the stored settings of a run: every keyword string with a cap below the
\* page cap, and one keyword with a cap that takes a second page
StoredSettings ==
    [query_keywords : SeqsUpTo(KeywordFields, MaxKeywords),
     category_keywords : {TestMapping},
     max_articles : {1, 5},
     max_age_hours : {0, 24}]
    \cup
    [query_keywords : SeqsUpTo({<<"A">>}, 1),
     category_keywords : {TestMapping},
     max_articles : {PageCap + 1},
     max_age_hours : {24}]

InitCrawl ==
    /\ pc = "start"
    /\ articles = <<>>
    /\ keywords_by_category = <<>>
    /\ title = <<>>
    /\ kept = <<>>
    /\ result = <<>>
    /\ category = CatchAll
    /\ cfg_ready \in BOOLEAN
    /\ stored \in StoredSettings
    /\ keywords = <<>>
    /\ user_keywords = None
    /\ user_max_articles = None
    /\ user_category_keywords = None
    /\ user_max_age_hours = None
    /\ now = 1916
    /\ kw_list = <<>>
    /\ max_per_keyword = 0
    /\ kw_index = 0
    /\ remaining = 0
    /\ batch = 0
    /\ attempts = 0
    /\ success = FALSE
    /\ raw_articles = <<>>
    /\ failures = 0
    /\ max_age_hours = None
    /\ calls = <<>>
    /\ page_no = 0
    /\ sleeps = 0
    /\ OthersIdle

NextCrawl ==
    \/ Start
    \/ EnterLoop
    \/ \E items \in ProviderResponses(StartOffset(remaining), batch) :
            FetchOk(items)
    \/ FetchFail
    \/ FilterByAge
    \/ Curate

SpecCrawl == InitCrawl /\ [][NextCrawl]_vars

CallsOfPage(p) == {i \in 1..Len(calls) : calls[i].page = p}

CallsOfKeyword(k) == {i \in 1..Len(calls) : calls[i].kw_index = k}

\* the page request p used up its attempts
Exhausted(p) ==
    /\ Cardinality(CallsOfPage(p)) = MaxAttempts
    /\ \A i \in CallsOfPage(p) : ~calls[i].ok

\* the keyword loop is over
LoopDone == pc \in {"filter", "curate", "done"}

\* C4: every page request is attempted at most 3 times, with an attempt
\* counter that starts at 0 for every page request; after 3 failed attempts
\* no further request is made for that keyword, and the run goes on: it does
\* not raise, and by the end of the loop every keyword was requested.
C4_BoundedRetryPerPage ==
    /\ \A p \in 1..page_no : Cardinality(CallsOfPage(p)) <= 3
    /\ \A i \in 1..Len(calls) :
          calls[i].attempts
              = Cardinality({h \in CallsOfPage(calls[i].page) : h < i})
    /\ \A p \in 1..page_no : Exhausted(p) =>
          \A i \in CallsOfPage(p) : \A j \in CallsOfKeyword(calls[i].kw_index) :
              j > i => calls[j].page = p
    /\ pc # "raised"
    /\ (LoopDone /\ cfg_ready /\ max_per_keyword > 0) =>
          \A k \in 1..Len(kw_list) : CallsOfKeyword(k) # {}

\* C4 witness: the first keyword's page failed 3 times, the second
\* keyword's page failed once and then succeeded, and the run returned.
C4_Witness ==
    /\ pc = "done"
    /\ Len(calls) = 5
    /\ Exhausted(1)
    /\ \A i \in 1..3 : calls[i].kw_index = 1
    /\ calls[4].kw_index = 2 /\ calls[4].attempts = 0 /\ ~calls[4].ok
    /\ calls[5].kw_index = 2 /\ calls[5].attempts = 1 /\ calls[5].ok
    /\ result # <<>>

RECURSIVE ItemsFrom(_, _)
ItemsFrom(k, i) ==
    IF i > Len(calls) THEN <<>>
    ELSE (IF calls[i].kw_index = k /\ calls[i].ok THEN calls[i].items ELSE <<>>)
         \o ItemsFrom(k, i + 1)

\* the items the provider returned for the keyword at position k
ItemsOfKeyword(k) == ItemsFrom(k, 1)

AllFailed(k) ==
    CallsOfKeyword(k) # {} /\ \A i \in CallsOfKeyword(k) : ~calls[i].ok

NoneFailed(k) == \A i \in CallsOfKeyword(k) : calls[i].ok

\* C5: when every call for one of two keywords failed and no call for the
\* other did, in either order, the other keyword was requested and the run
\* returns the curated, age-filtered items of that keyword; no exception
\* leaves crawl_naver_news.
C5_PartialFailure ==
    /\ pc # "raised"
    /\ (pc = "done" /\ Len(kw_list) = 2) =>
          \A a, b \in 1..2 :
              (a # b /\ AllFailed(a) /\ NoneFailed(b)) =>
                  /\ CallsOfKeyword(b) # {}
                  /\ result = curate(filter_by_age(ItemsOfKeyword(b),
                                                   max_age_hours, now),
                                     keywords_by_category)

\* C5 witness: the second keyword failed 3 times, the first returned the
\* dated batch, of which one article is in the result.
C5_Witness ==
    /\ pc = "done"
    /\ Len(kw_list) = 2
    /\ NoneFailed(1) /\ ItemsOfKeyword(1) = DatedBatch
    /\ AllFailed(2) /\ Cardinality(CallsOfKeyword(2)) = 3
    /\ max_age_hours = Some(24)
    /\ Len(result) = 1

\* C6: whatever calls fail, crawl_naver_news is at one of its own steps or
\* has returned, never left by an exception; and on the real-data path a
\* run whose calls all failed returns the empty list.
C6_NoProviderExceptionEscapes ==
    /\ pc \in {"start", "for", "fetch", "filter", "curate", "done"}
    /\ (pc = "done" /\ cfg_ready /\ \A i \in 1..Len(calls) : ~calls[i].ok)
          => result = <<>>

\* C6 witness: two keywords, both used up their attempts, and the run
\* returned the empty list.
C6_Witness ==
    /\ pc = "done"
    /\ Len(kw_list) = 2
    /\ Len(calls) = 6
    /\ \A i \in 1..Len(calls) : ~calls[i].ok
    /\ failures = 2
    /\ result = <<>>

\* the first category of the mapping with a keyword that occurs in the title
FirstCategoryIn(a) ==
    LET hits == {i \in 1..Len(keywords_by_category) :
                    KeywordHit(lower(TitleOf(a)), keywords_by_category[i].keywords)}
    IN  keywords_by_category[CHOOSE i \in hits : \A h \in hits : i <= h].category

\* C7: on the real-data path with one stored keyword, a stored cap of 5 and
\* the stored max age of 24 hours, a provider batch of two items with one
\* title and an advertorial item, none with a publish timestamp, yields
\* exactly one article, of the first category with a keyword in its title.
C7_RealDataFlow ==
    (/\ pc = "done"
     /\ cfg_ready
     /\ Len(kw_list) = 1
     /\ max_per_keyword = 5
     /\ max_age_hours = Some(24)
     /\ Len(calls) = 1
     /\ calls[1].ok
     /\ calls[1].items = TestBatch)
    => /\ Len(result) = 1
       /\ result[1].category = FirstCategoryIn(result[1])

-----------------------------------------------------------------------------
(* modules/keyword_store.py                                                 *)

\* A dict whose iteration order the code does not depend on is a function
\* from its keys; data/keywords.json is
\*   exists  whether the file is there
\*   valid   whether json.load accepts it
\*   data    the dict json.load returns
EmptyDict == [k \in {} |-> <<>>]

CorruptFile == [exists |-> TRUE, valid |-> FALSE, data |-> EmptyDict]

FileWith(data) == [exists |-> TRUE, valid |-> TRUE, data |-> data]

\* _DEFAULT_DATA
DefaultData ==
    [query_keywords |-> <<>>, category_keywords |-> DefaultMapping,
     max_articles |-> 30, max_age_hours |-> 24]

\* the position of `key` in the ordered dict d, 0 when it is not a key
PositionOf(d, key) ==
    IF \E j \in 1..Len(d) : d[j].category = key
    THEN CHOOSE j \in 1..Len(d) : d[j].category = key
    ELSE 0

\* d.update(other) on ordered dicts, from the i-th item of `other` on: a
\* key of d keeps its position and takes the new value, a new key goes last
RECURSIVE DictUpdateFrom(_, _, _)
DictUpdateFrom(d, other, i) ==
    IF i > Len(other) THEN d
    ELSE LET j == PositionOf(d, other[i].category)
         IN  DictUpdateFrom(IF j = 0 THEN Append(d, other[i])
                            ELSE [d EXCEPT ![j] = other[i]],
                            other, i + 1)

DictUpdate(d, other) == DictUpdateFrom(d, other, 1)

\* merged = _DEFAULT_DATA.copy(); merged.update(data)
MergedWithDefaults(data) ==
    [k \in (DOMAIN DefaultData) \cup (DOMAIN data) |->
        IF k \in DOMAIN data THEN data[k] ELSE DefaultData[k]]

\* _load_keywords without its lines 76-78: the category dict of the file
\* is returned as the file has it
load_keywords_no_category_merge(f) ==
    IF ~f.exists THEN DefaultData
    ELSE IF ~f.valid THEN DefaultData
    ELSE MergedWithDefaults(f.data)

\* _load_keywords
load_keywords(f) ==
    IF ~f.exists THEN DefaultData
    ELSE IF ~f.valid THEN DefaultData
    ELSE LET merged == MergedWithDefaults(f.data)
         IN  IF "category_keywords" \in DOMAIN f.data
             THEN [merged EXCEPT !["category_keywords"] =
                      DictUpdate(DefaultData["category_keywords"],
                                 Get(f.data, "category_keywords", <<>>))]
             ELSE merged

get_query_keywords(f) == Get(load_keywords(f), "query_keywords", <<>>)

get_category_keywords(f) ==
    Get(load_keywords(f), "category_keywords", DefaultData["category_keywords"])

get_max_articles(f) == Get(load_keywords(f), "max_articles", 30)

get_max_age_hours(f) == Get(load_keywords(f), "max_age_hours", 24)

\* what the getters return while the file is f
StoredOf(f) ==
    [query_keywords |-> get_query_keywords(f),
     category_keywords |-> get_category_keywords(f),
     max_articles |-> get_max_articles(f),
     max_age_hours |-> get_max_age_hours(f)]

\* how a call of _save_keywords can go: the file is written; it cannot be
\* opened and stays as it was; it is opened, which empties it, and the
\* write fails
SaveOutcomes == {"written", "not-opened", "truncated"}

\* _save_keywords: the file after the call and the value returned
save_keywords(f, data, how) ==
    CASE how = "written" -> [file |-> FileWith(data), ret |-> TRUE]
      [] how = "not-opened" -> [file |-> f, ret |-> FALSE]
      [] OTHER -> [file |-> CorruptFile, ret |-> FALSE]

update_query_keywords(f, value, how) ==
    save_keywords(f, WithKey(load_keywords(f), "query_keywords", value), how)

update_category_keywords(f, value, how) ==
    save_keywords(f, WithKey(load_keywords(f), "category_keywords", value), how)

update_max_articles(f, value, how) ==
    save_keywords(f, WithKey(load_keywords(f), "max_articles", value), how)

update_max_age_hours(f, value, how) ==
    save_keywords(f, WithKey(load_keywords(f), "max_age_hours", value), how)

\* the steps of one update_* call, as another thread can see them ----------

\* `data = _load_keywords()` and `data[setting] = value` (lines 171-172,
\* 190-191, 204-205, 218-219): the local dict of the call
UpdateData(f, setting, value) == WithKey(load_keywords(f), setting, value)

\* line 103, open(_KEYWORDS_FILE, "w"): the file is there and empty, which
\* json.load does not accept
OpenedForWriting(f) == CorruptFile

\* lines 103-104: what the file holds once json.dump has written `data` and
\* the file is closed.  `mixed` says that another writer, which had the
\* file open at the same time, wrote first and more than this one: the end
\* of what it wrote is still there.
WrittenFile(data, mixed) == IF mixed THEN CorruptFile ELSE FileWith(data)

-----------------------------------------------------------------------------
(* The category mapping of a collection run, for every key order of the    *)
(* file and of a user override                                              *)

\* keyword lists on file: none, or the first word of the first stub title
FileKeywordLists == { <<>>, <<<<"d">>>> }

\* the category dicts the settings route can have saved, in any key order
FileMappings ==
    UNION { {Mapping(cats, kws) : kws \in [1..Len(cats) -> FileKeywordLists]} :
            cats \in CategoryOrders }

Files ==
    {NoFile, CorruptFile, FileWith(EmptyDict)}
    \cup {FileWith(WithKey(EmptyDict, "category_keywords", m)) : m \in FileMappings}

\* user overrides: two categories against the default order with a keyword
\* of the first stub title in both, the default order, one category, {}
OverrideMappings ==
    { Mapping(<<"chamgo", "grupsa">>, << <<<<"d">>>>, <<<<"D">>>> >>),
      Mapping(<<"grupsa", "eopgye", "chamgo">>, << <<>>, <<<<"e">>>>, <<<<"d">>>> >>),
      Mapping(<<"eopgye">>, << <<<<"w">>>> >>),
      <<>> }

InitMapping ==
    /\ pc = "start"
    /\ articles = <<>>
    /\ keywords_by_category = <<>>
    /\ title = <<>>
    /\ kept = <<>>
    /\ result = <<>>
    /\ category = CatchAll
    /\ cfg_ready \in BOOLEAN
    /\ file \in Files
    /\ stored = StoredOf(file)
    /\ keywords = <<>>
    /\ user_keywords = None
    /\ user_max_articles = None
    /\ user_category_keywords \in {None} \cup {Some(m) : m \in OverrideMappings}
    /\ user_max_age_hours = None
    /\ now = 1916
    /\ kw_list = <<>>
    /\ max_per_keyword = 0
    /\ kw_index = 0
    /\ remaining = 0
    /\ batch = 0
    /\ attempts = 0
    /\ success = FALSE
    /\ raw_articles = <<>>
    /\ failures = 0
    /\ max_age_hours = None
    /\ calls = <<>>
    /\ page_no = 0
    /\ sleeps = 0
    /\ CallsIdle
    /\ StoreIdle
    /\ SlackIdle
    /\ UpdatersIdle

NextMapping ==
    \/ Start
    \/ EnterLoop
    \/ FilterByAge
    \/ Curate

SpecMapping == InitMapping /\ [][NextMapping]_vars

CategoriesOf(m) == [i \in 1..Len(m) |-> m[i].category]

DefaultOrder == <<"grupsa", "eopgye", "chamgo">>

RankOf(c) == CHOOSE i \in 1..Len(DefaultOrder) : DefaultOrder[i] = c

\* the keywords data/keywords.json lists for the category c
KeywordsOnFile(c) ==
    LET m == IF file.exists /\ file.valid
             THEN Get(file.data, "category_keywords", <<>>)
             ELSE <<>>
    IN  IF PositionOf(m, c) = 0 THEN <<>> ELSE m[PositionOf(m, c)].keywords

\* C11 as stated: the mapping a run categorizes with iterates its categories
\* in the order grupsa, eopgye, chamgo, whether it is the stored mapping or a
\* user override.
C11_AlwaysDefaultOrder ==
    pc = "done" =>
        \A i, j \in 1..Len(keywords_by_category) :
            i < j => RankOf(keywords_by_category[i].category)
                        < RankOf(keywords_by_category[j].category)

\* C11 amended: without a user override the run's mapping lists exactly
\* grupsa, eopgye, chamgo in this order, each with the keywords the file
\* has for it, whatever the key order of the file; a user override is the
\* run's mapping as it was given, in its own key order.
C11_StoredOrderOrOverrideAsGiven ==
    pc = "done" =>
        IF user_category_keywords = None
        THEN /\ CategoriesOf(keywords_by_category) = DefaultOrder
             /\ \A i \in 1..Len(keywords_by_category) :
                   keywords_by_category[i].keywords
                       = KeywordsOnFile(keywords_by_category[i].category)
        ELSE keywords_by_category = user_category_keywords[1]

\* C11 witness: the file lists chamgo before grupsa, both with a keyword of
\* the stub article that passes the age filter; the run puts it in grupsa.
C11_Witness ==
    /\ pc = "done"
    /\ user_category_keywords = None
    /\ file.exists /\ file.valid
    /\ "category_keywords" \in DOMAIN file.data
    /\ CategoriesOf(file.data["category_keywords"]) = <<"chamgo", "grupsa">>
    /\ KeywordsOnFile("chamgo") = <<<<"d">>>>
    /\ KeywordsOnFile("grupsa") = <<<<"d">>>>
    /\ Len(result) = 1
    /\ result[1].category = "grupsa"

-----------------------------------------------------------------------------
(* normalize_title applied to every title of at most MaxTitleLen            *)
(* characters, and deduplicate applied to a title and a variant of it       *)

\* longest title handed to normalize_title
MaxTitleLen == 3

\* a capital, a small letter, a space, a tab, a bracket and a dash
NormalizeChars == {"A", "a", " ", "\t", "[", "-"}

\* the title of test_normalize_title and the value the test expects
TestTitle ==
    <<" ", "[", "d", "]", " ", " ", "e", " ", " ", "f", " ", " ", " ", "i", " ">>

TestNormalized == <<"d", " ", "e", " ", "f", " ", "i">>

NormalizeTitles == SeqsUpTo(NormalizeChars, MaxTitleLen) \cup {TestTitle}

InsertAt(t, i, c) == SubSeq(t, 1, i) \o <<c>> \o SubSeq(t, i + 1, Len(t))

\* the titles that differ from t by one more bracket or dash, or by one
\* whitespace run one character longer
Variants(t) ==
    {InsertAt(t, i, c) : i \in 0..Len(t), c \in {"(", "}", "~"}}
    \cup {InsertAt(t, i, c) : i \in {h \in 1..Len(t) : t[h] \in Whitespace},
                              c \in Whitespace}

InitNormalize ==
    /\ pc = "start"
    /\ title \in NormalizeTitles
    /\ articles \in {<<Article(title, <<"u">>), Article(v, <<"v">>)>> :
                        v \in Variants(title)}
    /\ keywords_by_category = DefaultMapping
    /\ kept = <<>>
    /\ result = <<>>
    /\ category = CatchAll
    /\ CrawlIdle
    /\ OthersIdle

CallNormalize ==
    /\ pc = "start"
    /\ normalized' = normalize_title(title)
    /\ pc' = "normalized"
    /\ UNCHANGED <<pureVars, crawlVars, fileVars, renormalized, filter_result,
                   storeVars, threadVars, slackVars, updateVars>>

CallNormalizeAgain ==
    /\ pc = "normalized"
    /\ renormalized' = normalize_title(normalized)
    /\ pc' = "renormalized"
    /\ UNCHANGED <<pureVars, crawlVars, fileVars, normalized, filter_result,
                   storeVars, threadVars, slackVars, updateVars>>

NextNormalize ==
    \/ CallNormalize
    \/ CallNormalizeAgain
    \/ CallDeduplicate

SpecNormalize == InitNormalize /\ [][NextNormalize]_vars

\* C12: normalizing a normalized title leaves it as it is.
C12_NormalizeIdempotent ==
    pc = "renormalized" => renormalized = normalized

\* C12 witness: the title of test_normalize_title, which normalization
\* changes, was normalized twice.
C12_Witness ==
    /\ pc = "renormalized"
    /\ title = TestTitle
    /\ normalized = TestNormalized
    /\ normalized # title
    /\ renormalized = TestNormalized

\* the maximal runs of characters other than whitespace of s, in order
RECURSIVE WordsOf(_)
WordsOf(s) ==
    IF s = <<>> THEN <<>>
    ELSE IF Head(s) \in Whitespace THEN WordsOf(Tail(s))
    ELSE LET n == CHOOSE n \in 1..Len(s) :
                      /\ \A i \in 1..n : s[i] \notin Whitespace
                      /\ n = Len(s) \/ s[n + 1] \in Whitespace
         IN  <<SubSeq(s, 1, n)>> \o WordsOf(SubSeq(s, n + 1, Len(s)))

RECURSIVE JoinWords(_)
JoinWords(words) ==
    IF words = <<>> THEN <<>>
    ELSE IF Len(words) = 1 THEN words[1]
    ELSE words[1] \o <<" ">> \o JoinWords(Tail(words))

\* C13: the normalized title is the words of the lower-cased title with its
\* brackets and dashes deleted (the characters on both sides of a deleted
\* one are joined), separated by single spaces; test_normalize_title's title
\* gives the value the test expects; a title and a variant of it with one
\* more bracket or a longer whitespace run have the same normalized title,
\* and of two articles with these titles and different URLs deduplicate
\* keeps no more than the first (exactly the first when the normalized
\* title is not empty).
C13_NormalizeAndDedupVariants ==
    /\ pc = "normalized" =>
          /\ normalized
                = JoinWords(WordsOf(SelectSeq(
                      [i \in 1..Len(title) |-> LowerChar(title[i])],
                      LAMBDA c : c \notin BracketsAndDashes)))
          /\ title = TestTitle => normalized = TestNormalized
    /\ pc = "deduplicated" =>
          /\ NormTitleOf(articles[1]) = NormTitleOf(articles[2])
          /\ Len(result) <= 1
          /\ NormTitleOf(articles[1]) # <<>> => result = <<articles[1]>>

\* C13 witness: the test's title and the same title with a longer whitespace
\* run, under different URLs; deduplicate kept the first alone.
C13_Witness ==
    /\ pc = "deduplicated"
    /\ TitleOf(articles[1]) = TestTitle
    /\ \E i \in 1..Len(TestTitle) :
          /\ TestTitle[i] = " "
          /\ TitleOf(articles[2]) = InsertAt(TestTitle, i, "\t")
    /\ ~SameUrl(articles[1], articles[2])
    /\ result = <<articles[1]>>

-----------------------------------------------------------------------------
(* _filter_by_age applied to every batch of at most MaxItems articles       *)

\* the clock of the calls of _filter_by_age, in minutes
AgeNow == 1916

\* publish timestamps around the horizon of 24 hours: none, whitespace
\* only, unparseable, at the horizon and a minute before it without a time
\* zone, a minute before the horizon in a zone 9 hours east (its wall clock
\* reads later than the horizon), at the horizon in a zone 1 hour west (its
\* wall clock reads earlier), and now
AgeDates ==
    { PubDate("absent", 0, 0),
      PubDate("blank", 0, 0),
      PubDate("malformed", 0, 0),
      PubDate("naive", AgeNow - 24 * MinutesPerHour, 0),
      PubDate("naive", AgeNow - 24 * MinutesPerHour - 1, 0),
      PubDate("aware", AgeNow - 24 * MinutesPerHour - 1 + 540, 540),
      PubDate("aware", AgeNow - 24 * MinutesPerHour - 60, 0 - 60),
      PubDate("naive", AgeNow, 0) }

\* an article with the publish timestamp d, without the key for "absent"
DatedArticle(d) ==
    IF d.kind = "absent" THEN [title |-> <<"n">>, url |-> <<"n">>]
    ELSE [title |-> <<"t">>, url |-> <<"t">>, pub_date |-> d]

AgeItems == {DatedArticle(d) : d \in AgeDates}

\* values of the argument max_age_hours
MaxAges == {None, Some(0 - 1), Some(0), Some(1), Some(24)}

InitAge ==
    /\ pc = "start"
    /\ articles \in SeqsUpTo(AgeItems, MaxItems)
    /\ keywords_by_category = DefaultMapping
    /\ title = <<>>
    /\ kept = <<>>
    /\ result = <<>>
    /\ category = CatchAll
    /\ cfg_ready = FALSE
    /\ stored = [query_keywords |-> <<>>, category_keywords |-> <<>>,
                 max_articles |-> 30, max_age_hours |-> 24]
    /\ keywords = <<>>
    /\ user_keywords = <<>>
    /\ user_max_articles = <<>>
    /\ user_category_keywords = <<>>
    /\ user_max_age_hours = <<>>
    /\ now = AgeNow
    /\ kw_list = <<>>
    /\ max_per_keyword = 0
    /\ kw_index = 0
    /\ remaining = 0
    /\ batch = 0
    /\ attempts = 0
    /\ success = FALSE
    /\ raw_articles = <<>>
    /\ failures = 0
    /\ max_age_hours \in MaxAges
    /\ calls = <<>>
    /\ page_no = 0
    /\ sleeps = 0
    /\ OthersIdle

CallFilterByAge ==
    /\ pc = "start"
    /\ filter_result' = filter_by_age(articles, max_age_hours, now)
    /\ pc' = "filtered"
    /\ UNCHANGED <<pureVars, crawlVars, fileVars, normalized, renormalized,
                   storeVars, threadVars, slackVars, updateVars>>

NextAge == CallFilterByAge

SpecAge == InitAge /\ [][NextAge]_vars

\* the article has a timestamp that parses, not older than `hours`
FreshEnough(a, hours) ==
    /\ "pub_date" \in DOMAIN a
    /\ a.pub_date.kind \in {"naive", "aware"}
    /\ (IF a.pub_date.kind = "naive" THEN a.pub_date.local
        ELSE a.pub_date.local - a.pub_date.tz)
          >= now - hours * MinutesPerHour

\* the n-th smallest element of the set S of positions
NthOf(S, n) == CHOOSE i \in S : Cardinality({j \in S : j <= i}) = n

C15_AgeFilterDisabled ==
    (pc = "filtered" /\ (max_age_hours = None \/ max_age_hours[1] <= 0)) =>
        filter_result = articles

\* C15 witness: with 0 hours, an article without a timestamp, one whose
\* timestamp does not parse and one older than a day are all returned.
C15_Witness ==
    /\ pc = "filtered"
    /\ max_age_hours = Some(0)
    /\ articles = << DatedArticle(PubDate("absent", 0, 0)),
                     DatedArticle(PubDate("malformed", 0, 0)),
                     DatedArticle(PubDate("naive", now - 24 * MinutesPerHour - 1, 0)) >>
    /\ filter_result = articles

-----------------------------------------------------------------------------
(* modules/store.py                                                         *)

\* A list object is heap[id]; store._articles is bound to the list
\* heap[self_articles].  An Article object belongs to one list only, so it
\* is held in the list by value.
Stored == heap[self_articles]

\* Article(title=..., url=..., category=...) of lines 31-35, with the
\* defaults of the dataclass for selected and summary
BuildArticle(a) ==
    [title    |-> Get(a, "title", <<>>),
     url      |-> Get(a, "url", <<>>),
     category |-> Get(a, "category", CatchAll),
     selected |-> FALSE,
     summary  |-> <<>>]

\* set_articles taking selected and summary from its argument when it has them
set_articles_keep_flags(dicts) ==
    [i \in 1..Len(dicts) |->
        [BuildArticle(dicts[i]) EXCEPT
            !.selected = Get(dicts[i], "selected", FALSE),
            !.summary  = Get(dicts[i], "summary", <<>>)]]

\* the list set_articles binds store._articles to
set_articles(dicts) == [i \in 1..Len(dicts) |-> BuildArticle(dicts[i])]

\* one element of the list list_articles returns
ListedArticle(a) ==
    [title |-> a.title, url |-> a.url, category |-> a.category,
     selected |-> a.selected, summary |-> a.summary]

list_articles(arts) == [i \in 1..Len(arts) |-> ListedArticle(arts[i])]

\* one element of the list get_selected returns
SelectedArticle(a) ==
    [title |-> a.title, url |-> a.url, category |-> a.category,
     summary |-> a.summary]

\* get_selected without the condition `if a.selected`
get_selected_unfiltered(arts) ==
    [i \in 1..Len(arts) |-> SelectedArticle(arts[i])]

get_selected(arts) ==
    LET chosen == SelectSeq(arts, LAMBDA a : a.selected)
    IN  [i \in 1..Len(chosen) |-> SelectedArticle(chosen[i])]

\* the position of the first article with the URL, 0 when there is none
FirstWithUrl(arts, url) ==
    IF \E i \in 1..Len(arts) : arts[i].url = url
    THEN CHOOSE i \in 1..Len(arts) :
            /\ arts[i].url = url
            /\ \A h \in 1..(i - 1) : arts[h].url # url
    ELSE 0

\* delete_by_url removing the first article with the URL only
delete_by_url_first_only(arts, url) ==
    LET i == FirstWithUrl(arts, url)
        rest == IF i = 0 THEN arts
                ELSE SubSeq(arts, 1, i - 1) \o SubSeq(arts, i + 1, Len(arts))
    IN  [articles |-> rest, ret |-> Len(rest) # Len(arts)]

\* delete_by_url: the new list and the value returned
delete_by_url(arts, url) ==
    LET rest == SelectSeq(arts, LAMBDA a : a.url # url)
    IN  [articles |-> rest, ret |-> Len(rest) # Len(arts)]

\* set_selected returning True whether or not it found the URL
set_selected_always_true(arts, url, selected) ==
    LET i == FirstWithUrl(arts, url)
    IN  IF i # 0
        THEN [articles |-> [arts EXCEPT ![i].selected = selected], ret |-> TRUE]
        ELSE [articles |-> arts, ret |-> TRUE]

\* set_selected: the articles as it leaves them and the value returned
set_selected(arts, url, selected) ==
    LET i == FirstWithUrl(arts, url)
    IN  IF i # 0
        THEN [articles |-> [arts EXCEPT ![i].selected = selected], ret |-> TRUE]
        ELSE [articles |-> arts, ret |-> FALSE]

\* set_summary writing to every article with the URL, and only where no
\* summary was set yet
set_summary_all_unset(arts, url, summary) ==
    [articles |-> [i \in 1..Len(arts) |->
                      IF arts[i].url = url /\ arts[i].summary = <<>>
                      THEN [arts[i] EXCEPT !.summary = summary]
                      ELSE arts[i]],
     ret |-> \E i \in 1..Len(arts) : arts[i].url = url]

\* set_summary: the articles as it leaves them and the value returned
set_summary(arts, url, summary) ==
    LET i == FirstWithUrl(arts, url)
    IN  IF i # 0
        THEN [articles |-> [arts EXCEPT ![i].summary = summary], ret |-> TRUE]
        ELSE [articles |-> arts, ret |-> FALSE]

\* the methods class InMemoryStore defines (lines 24-80)
StoreMethods ==
    {"__init__", "set_articles", "list_articles", "delete_by_url",
     "set_selected", "set_summary", "get_selected"}

\* the lists a running thread holds a reference to
ThreadRoots ==
    (IF r_pc = "iterating" THEN {r_ref} ELSE {})
    \cup (IF w_pc = "building" THEN {w_new} ELSE {})

\* the identity of a list created now
FreshId ==
    CHOOSE i \in 1..(Cardinality(DOMAIN heap) + 1) :
        /\ i \notin DOMAIN heap
        /\ \A h \in 1..(i - 1) : h \in DOMAIN heap

\* `self._articles = <a new list>`: the list store._articles was bound to
\* is freed unless a thread still refers to it
Rebind(new) ==
    LET id == FreshId
    IN  /\ heap' = [i \in ThreadRoots \cup {id} |->
                       IF i = id THEN new ELSE heap[i]]
        /\ self_articles' = id

-----------------------------------------------------------------------------
(* modules/slack.py                                                         *)
(*                                                                          *)
(* A message is a sequence of characters; a piece of fixed text that holds  *)
(* no white space is one element:                                           *)
(*     ":newspaper:"   "*clipping*" for *오늘의 클리핑*                      *)
(*     "none-selected" for 선택된 기사가 없습니다.                           *)
(*     "@" for the bullet and "~" for the dash of lines 52-53               *)

\* _group_by_category: the articles of every category that has one
group_by_category(arts) ==
    [c \in {Get(arts[i], "category", CatchAll) : i \in 1..Len(arts)} |->
        SelectSeq(arts, LAMBDA a : Get(a, "category", CatchAll) = c)]

\* the list `order` of line 40
order == <<"grupsa", "eopgye", "chamgo", "ilgeulgeori">>

\* line 34
NoArticleMessage == <<"*clipping*", "\n", "\n", "none-selected">>

\* the element appended by line 38
HeaderLine == <<":newspaper:", " ", "*clipping*", "\n">>

\* line 45
HeadingLine(cat) == <<"*[", cat, "]*">>

\* lines 47-53: the line of one article
ArticleLine(art) ==
    LET ttl == Get(art, "title", <<>>)
        url == Get(art, "url", <<>>)
        summary == Get(art, "summary", <<>>)
        link == IF url # <<>> /\ ttl # <<>>
                THEN <<"<">> \o url \o <<"|">> \o ttl \o <<">">>
                ELSE IF ttl # <<>> THEN ttl ELSE url
        snippet == IF summary # <<>> THEN <<" ", "~", " ">> \o summary
                   ELSE <<>>
    IN  <<"@", " ">> \o link \o snippet

\* lines 41-54 from the i-th category of `order` on: the elements appended
\* to `lines`
RECURSIVE SectionLinesFrom(_, _)
SectionLinesFrom(grouped, i) ==
    IF i > Len(order) THEN <<>>
    ELSE LET items == Get(grouped, order[i], <<>>)
         IN  IF items = <<>> THEN SectionLinesFrom(grouped, i + 1)
             ELSE <<HeadingLine(order[i])>>
                  \o [j \in 1..Len(items) |-> ArticleLine(items[j])]
                  \o << <<>> >>
                  \o SectionLinesFrom(grouped, i + 1)

\* "\n".join(lines)
RECURSIVE JoinLines(_)
JoinLines(lines) ==
    IF lines = <<>> THEN <<>>
    ELSE IF Len(lines) = 1 THEN lines[1]
    ELSE lines[1] \o <<"\n">> \o JoinLines(Tail(lines))

\* format_slack_message with the categories in the order of their first
\* article
format_slack_message_input_order(arts) ==
    IF arts = <<>> THEN NoArticleMessage
    ELSE strip(JoinLines(
            <<HeaderLine>>
            \o [j \in 1..Len(arts) |->
                   HeadingLine(Get(arts[j], "category", CatchAll))
                   \o <<"\n">> \o ArticleLine(arts[j]) \o <<"\n">>]))

format_slack_message(arts) ==
    IF arts = <<>> THEN NoArticleMessage
    ELSE strip(JoinLines(<<HeaderLine>>
                         \o SectionLinesFrom(group_by_category(arts), 1)))

\* max_attempts of line 88
SlackMaxAttempts == 3

\* the length a preview is cut to (line 72)
PreviewLimit == 800

\* What one attempt of lines 91-106 meets:
\*   kind "ok"          the response says "ok": true
\*   kind "api_error"   the response says "ok": false, with "error": error
\*                      ("unknown_error" when it has none)
\*   kind "http_error"  urlopen raises HTTPError with the code `status`
\*   kind "url_error"   urlopen raises another URLError
\*   kind "exception"   anything else is raised (time-out, not JSON, ...)
\* retry_after is the Retry-After header of the response: None or Some(text)
SlackOutcome(kind, error, status, retry_after) ==
    [kind |-> kind, error |-> error, status |-> status,
     retry_after |-> retry_after]

\* every error code retried, the ones that report a refusal as well
RetryableErrorsAny ==
    {"rate_limited", "server_error", "upstream_server_error",
     "internal_error", "fatal_internal_error", "channel_not_found",
     "unknown_error"}

\* the error codes of lines 123-127; "upstream_server_error" stands for the
\* codes that hold "server_error", "fatal_internal_error" for those that
\* hold "internal_error"
RetryableErrors ==
    {"rate_limited", "server_error", "upstream_server_error",
     "internal_error", "fatal_internal_error"}

DigitValue(c) ==
    CHOOSE d \in 0..9 : DigitChars[d + 1] = c

RECURSIVE DecimalValue(_)
DecimalValue(cs) ==
    IF cs = <<>> THEN 0
    ELSE 10 * DecimalValue(SubSeq(cs, 1, Len(cs) - 1)) + DigitValue(cs[Len(cs)])

\* int(text): white space around, a sign, decimal digits; anything else is
\* a ValueError (ok is FALSE)
IntOf(chars) ==
    LET t == strip(chars)
        signed == t # <<>> /\ t[1] \in {"+", "-"}
        digits == IF signed THEN Tail(t) ELSE t
    IN  IF digits = <<>> \/ \E i \in 1..Len(digits) :
                                \A d \in 1..10 : DigitChars[d] # digits[i]
        THEN [ok |-> FALSE, value |-> 0]
        ELSE [ok |-> TRUE,
              value |-> IF signed /\ t[1] = "-" THEN 0 - DecimalValue(digits)
                        ELSE DecimalValue(digits)]

\* `wait_time = int(retry_after) if retry_after else attempt` followed by
\* time.sleep(wait_time), which raises ValueError for a negative length:
\* whether a ValueError is raised, and the time slept when none is
RetryWait(retry_after, attempt) ==
    IF retry_after = None \/ retry_after[1] = <<>>
    THEN [raises |-> FALSE, wait |-> attempt]
    ELSE LET n == IntOf(retry_after[1])
         IN  IF ~n.ok \/ n.value < 0
             THEN [raises |-> TRUE, wait |-> 0]
             ELSE [raises |-> FALSE, wait |-> n.value]

\* how send_message_to_slack ends
SlackReturn(ok, message, calls_made, slept) ==
    [raised |-> FALSE, success |-> ok, message |-> message,
     attempts |-> calls_made, slept |-> slept]

SlackRaise(exception, calls_made, slept) ==
    [raised |-> TRUE, success |-> FALSE, message |-> <<exception>>,
     attempts |-> calls_made, slept |-> slept]

\* The loop of lines 90-190 from the attempt `attempt` on.  outcomes[n] is
\* what the n-th attempt meets, `slept` the lengths of the calls of
\* time.sleep so far.  A ValueError of line 132 or 135 is raised inside the
\* try statement and handled by lines 177-187; one of line 156 or 159 is
\* raised inside an except clause and leaves the function.
RECURSIVE SendLoop(_, _, _)
SendLoop(attempt, outcomes, slept) ==
    IF attempt > SlackMaxAttempts
    THEN SlackReturn(FALSE, <<"retry-limit">>, SlackMaxAttempts, slept)
    ELSE
    LET o == outcomes[attempt]
        w == RetryWait(o.retry_after, attempt)
        more == attempt < SlackMaxAttempts
    IN  CASE o.kind = "ok" ->
                SlackReturn(TRUE, <<"sent">>, attempt, slept)
          [] o.kind = "api_error" ->
                IF o.error \in RetryableErrors /\ more
                THEN SendLoop(attempt + 1, outcomes,
                              Append(slept, IF w.raises THEN attempt ELSE w.wait))
                ELSE SlackReturn(FALSE, <<"failed", o.error>>, attempt, slept)
          [] o.kind = "http_error" ->
                IF (o.status = 429 \/ o.status >= 500) /\ more
                THEN IF w.raises
                     THEN SlackRaise("ValueError", attempt, slept)
                     ELSE SendLoop(attempt + 1, outcomes, Append(slept, w.wait))
                ELSE SlackReturn(FALSE, <<"failed-http">> \o Digits(o.status),
                                 attempt, slept)
          [] o.kind = "url_error" ->
                IF more
                THEN SendLoop(attempt + 1, outcomes, Append(slept, attempt))
                ELSE SlackReturn(FALSE, <<"failed-network">>, attempt, slept)
          [] OTHER ->
                IF more
                THEN SendLoop(attempt + 1, outcomes, Append(slept, attempt))
                ELSE SlackReturn(FALSE, <<"failed-unexpected">>, attempt, slept)

\* send_message_to_slack; `configured` is cfg.bot_token and cfg.channel_id
send_message_to_slack(arts, configured, outcomes) ==
    LET text == format_slack_message(arts)
    IN  IF ~configured
        THEN SlackReturn(TRUE,
                         <<"preview">>
                         \o (IF Len(text) > PreviewLimit
                             THEN SubSeq(text, 1, PreviewLimit) \o <<"...">>
                             ELSE text),
                         0, <<>>)
        ELSE SendLoop(1, outcomes, <<>>)

-----------------------------------------------------------------------------
(* app.py: the category-override route                                      *)

\* review_category looking the article up before it checks the category
review_category_lookup_first(url, cat) ==
    IF url = None \/ url[1] = <<>>
    THEN [status |-> 400, error |-> "url is required", store_calls |-> <<>>]
    ELSE [status |-> 500, error |-> "AttributeError",
          store_calls |-> <<"get_article_by_url">>]

\* review_category; url and category are data.get(...), None when the key
\* is missing.  For a URL and a valid category line 103 calls
\* store.get_article_by_url, which InMemoryStore does not define (see
\* StoreMethods): the AttributeError is answered by lines 112-115.
review_category(url, cat) ==
    IF url = None \/ url[1] = <<>>
    THEN [status |-> 400, error |-> "url is required", store_calls |-> <<>>]
    ELSE IF cat = None \/ cat[1] = ""
    THEN [status |-> 400, error |-> "category is required", store_calls |-> <<>>]
    ELSE IF cat[1] \notin ValidCategories
    THEN [status |-> 400, error |-> "invalid category", store_calls |-> <<>>]
    ELSE [status |-> 500, error |-> "AttributeError",
          store_calls |-> <<"get_article_by_url">>]

-----------------------------------------------------------------------------
(* app.py: the other routes.  A route is an operator from the state it     *)
(* reads and its request to the state it leaves and its response.          *)

Response(status, body) == [status |-> status, body |-> body]

\* `if not url`, url being data.get("url")
NoUrl(url) == url = None \/ url[1] = <<>>

\* What crawl_naver_news returns to collect_news, which passes no override.
\* `raw` is what lines 141-174 aggregated from the provider; without the
\* provider's credentials (ready is FALSE) it is the stub data.
collected(f, ready, raw, t) ==
    curate(filter_by_age(IF ready THEN raw ELSE StubArticles,
                         Some(get_max_age_hours(f)), t),
           get_category_keywords(f))

\* collect_news: the list store._articles is bound to, and the response
collect_news(f, ready, raw, t) ==
    LET found == collected(f, ready, raw, t)
    IN  [articles |-> set_articles(found),
         response |-> Response(200, [count |-> Len(found)])]

\* summarize_news: line 47 calls store.get_article_by_url, which
\* InMemoryStore does not define; the AttributeError is answered by the
\* error handler of common.py, and line 52 is never reached
summarize_news(arts, url) ==
    IF NoUrl(url)
    THEN [articles |-> arts, response |-> Response(400, "url is required")]
    ELSE [articles |-> arts, response |-> Response(500, "AttributeError")]

\* send_slack unselecting what it delivered
send_slack_unselects(arts, configured, outcomes) ==
    LET r == send_message_to_slack(get_selected(arts), configured, outcomes)
    IN  [articles |-> IF r.raised \/ ~r.success THEN arts
                      ELSE [i \in 1..Len(arts) |->
                               [arts[i] EXCEPT !.selected = FALSE]],
         response |-> IF r.raised THEN Response(500, r.message)
                      ELSE Response(200, [success |-> r.success,
                                          message |-> r.message])]

\* send_slack: the articles of the store after the request, and the
\* response; an exception of send_message_to_slack is answered by the error
\* handler of common.py
send_slack(arts, configured, outcomes) ==
    LET r == send_message_to_slack(get_selected(arts), configured, outcomes)
    IN  [articles |-> arts,
         response |-> IF r.raised THEN Response(500, r.message)
                      ELSE Response(200, [success |-> r.success,
                                          message |-> r.message])]

review_list(arts) ==
    [articles |-> arts, response |-> Response(200, list_articles(arts))]

\* review_delete; `rebound` says whether delete_by_url was called
review_delete(arts, url) ==
    IF NoUrl(url)
    THEN [articles |-> arts, rebound |-> FALSE,
          response |-> Response(400, "url is required")]
    ELSE LET r == delete_by_url(arts, url[1])
         IN  [articles |-> r.articles, rebound |-> TRUE,
              response |-> Response(200, [deleted |-> r.ret])]

\* review_select; `selected` is data.get("selected"), None when the request
\* has none
review_select(arts, url, selected) ==
    IF NoUrl(url)
    THEN [articles |-> arts, response |-> Response(400, "url is required")]
    ELSE LET r == set_selected(arts, url[1],
                               IF selected = None THEN TRUE ELSE selected[1])
         IN  [articles |-> r.articles,
              response |-> Response(200, [updated |-> r.ret])]

\* The body of a settings request: every field is None or Some(value);
\*   keywords           [is_str, value]: value is the list of the fields
\*                      of the comma-separated string
\*   max_articles       [is_int, value]: is_int says whether int() accepts
\*   max_age_hours      it, value is what int() returns
\*   category_keywords  [is_dict, items, lists]: items is the dict, lists
\*                      says whether every value is a list of strings
SettingsRequest(kw, cap, cats, age) ==
    [keywords |-> kw, max_articles |-> cap, category_keywords |-> cats,
     max_age_hours |-> age]

\* valid_categories of line 180
SettingsCategories == {"grupsa", "eopgye", "chamgo"}

\* settings_save accepting every category name
settings_save_any_category(f, req, hows) ==
    IF req.category_keywords = None THEN [file |-> f, response |-> Response(200, "saved")]
    ELSE LET u == update_category_keywords(
                      f, req.category_keywords[1].items, hows.category_keywords)
         IN  [file |-> u.file,
              response |-> IF u.ret THEN Response(200, "saved")
                           ELSE Response(500, "failed to save category_keywords")]

\* lines 194-203 of settings_save, the field max_age_hours
SaveMaxAge(f, req, hows) ==
    IF req.max_age_hours = None
    THEN [file |-> f, response |-> Response(200, "saved")]
    ELSE IF ~req.max_age_hours[1].is_int
    THEN [file |-> f, response |-> Response(400, "max_age_hours must be an integer")]
    ELSE IF req.max_age_hours[1].value < 0
    THEN [file |-> f, response |-> Response(400, "max_age_hours must be 0 or greater")]
    ELSE LET u == update_max_age_hours(f, req.max_age_hours[1].value,
                                       hows.max_age_hours)
         IN  IF ~u.ret
             THEN [file |-> u.file,
                   response |-> Response(500, "failed to save max_age_hours")]
             ELSE [file |-> u.file, response |-> Response(200, "saved")]

\* lines 176-192 of settings_save, the field category_keywords, and on
SaveCategories(f, req, hows) ==
    IF req.category_keywords = None THEN SaveMaxAge(f, req, hows)
    ELSE LET c == req.category_keywords[1]
         IN  IF ~c.is_dict
             THEN [file |-> f,
                   response |-> Response(400, "category_keywords must be a dictionary")]
             ELSE IF \E i \in 1..Len(c.items) :
                        c.items[i].category \notin SettingsCategories
             THEN [file |-> f, response |-> Response(400, "invalid category")]
             ELSE IF ~c.lists
             THEN [file |-> f,
                   response |-> Response(400, "category_keywords must hold lists of strings")]
             ELSE LET u == update_category_keywords(f, c.items,
                                                    hows.category_keywords)
                  IN  IF ~u.ret
                      THEN [file |-> u.file,
                            response |-> Response(500, "failed to save category_keywords")]
                      ELSE SaveMaxAge(u.file, req, hows)

\* lines 166-174 of settings_save, the field max_articles, and on
SaveMaxArticles(f, req, hows) ==
    IF req.max_articles = None THEN SaveCategories(f, req, hows)
    ELSE IF ~req.max_articles[1].is_int
    THEN [file |-> f, response |-> Response(400, "max_articles must be an integer")]
    ELSE IF req.max_articles[1].value <= 0
    THEN [file |-> f,
          response |-> Response(400, "max_articles must be a positive integer")]
    ELSE LET u == update_max_articles(f, req.max_articles[1].value,
                                      hows.max_articles)
         IN  IF ~u.ret
             THEN [file |-> u.file,
                   response |-> Response(500, "failed to save max_articles")]
             ELSE SaveCategories(u.file, req, hows)

\* settings_save: the file after the request, and the response; hows says
\* how each call of _save_keywords goes
settings_save(f, req, hows) ==
    IF req.keywords = None THEN SaveMaxArticles(f, req, hows)
    ELSE IF ~req.keywords[1].is_str
    THEN [file |-> f, response |-> Response(400, "keywords must be a string")]
    ELSE LET u == update_query_keywords(f, req.keywords[1].value, hows.keywords)
         IN  IF ~u.ret
             THEN [file |-> u.file,
                   response |-> Response(500, "failed to save keywords")]
             ELSE SaveMaxArticles(u.file, req, hows)

\* settings_get and settings_initial_values
settings_get(f) ==
    Response(200, [keywords |-> get_query_keywords(f),
                   max_articles |-> get_max_articles(f),
                   category_keywords |-> get_category_keywords(f),
                   max_age_hours |-> get_max_age_hours(f)])

-----------------------------------------------------------------------------
(* The review store under every sequence of its operations                  *)

\* longest batch handed to set_articles, but for ThreeDistinct and SharedUrl
MaxBatch == 2

\* curated articles: one of a keyword category, one without a category that
\* carries a selection flag and a summary of its own, one with the URL of
\* the first, one with a third URL
StoreItemA == [title |-> <<"a">>, url |-> <<"u">>, category |-> "grupsa"]
StoreItemB ==
    [title |-> <<"b">>, url |-> <<"v">>, selected |-> TRUE, summary |-> <<"o">>]
StoreItemC == [title |-> <<"c">>, url |-> <<"u">>, category |-> "eopgye"]
StoreItemD == [title |-> <<"d">>, url |-> <<"w">>, category |-> "chamgo"]

StoreItems == {StoreItemA, StoreItemB}

\* three articles with distinct URLs
ThreeDistinct == <<StoreItemA, StoreItemB, StoreItemD>>

\* three articles of which the first and the last have one URL
SharedUrl == <<StoreItemA, StoreItemB, StoreItemC>>

StoreBatches == SeqsUpTo(StoreItems, MaxBatch) \cup {ThreeDistinct, SharedUrl}

\* URLs of the requests; no article has the URL "x"
StoreUrls == {<<"u">>, <<"v">>, <<"w">>, <<"x">>}

SummaryTexts == {<<>>, <<"s">>}

\* the fields url and category of a category-override request
RouteUrls == {None, Some(<<>>), Some(<<"u">>), Some(<<"x">>)}

RouteCategories == {None, Some(""), Some("etc"), Some("eopgye")}

InitStore ==
    /\ pc = "store"
    /\ articles = <<>>
    /\ keywords_by_category = DefaultMapping
    /\ title = <<>>
    /\ kept = <<>>
    /\ result = <<>>
    /\ category = CatchAll
    /\ CrawlIdle
    /\ OthersIdle

\* what a store operation or route leaves alone besides the store
StoreFrame ==
    UNCHANGED <<pc, pureVars, crawlVars, fileVars, callVars, threadVars,
                slackVars, updateVars>>

SetArticles(dicts) ==
    /\ pc = "store"
    /\ Rebind(set_articles(dicts))
    /\ op' = [name |-> "set_articles", url |-> <<>>, arg |-> dicts]
    /\ ret' = None
    /\ before' = Stored
    /\ StoreFrame

ListArticles ==
    /\ pc = "store"
    /\ op' = [name |-> "list_articles", url |-> <<>>, arg |-> <<>>]
    /\ ret' = list_articles(Stored)
    /\ before' = Stored
    /\ UNCHANGED <<heap, self_articles>>
    /\ StoreFrame

GetSelected ==
    /\ pc = "store"
    /\ op' = [name |-> "get_selected", url |-> <<>>, arg |-> <<>>]
    /\ ret' = get_selected(Stored)
    /\ before' = Stored
    /\ UNCHANGED <<heap, self_articles>>
    /\ StoreFrame

DeleteByUrl(url) ==
    /\ pc = "store"
    /\ LET r == delete_by_url(Stored, url)
       IN  /\ Rebind(r.articles)
           /\ ret' = r.ret
    /\ op' = [name |-> "delete_by_url", url |-> url, arg |-> <<>>]
    /\ before' = Stored
    /\ StoreFrame

SetSelected(url, selected) ==
    /\ pc = "store"
    /\ LET r == set_selected(Stored, url, selected)
       IN  /\ heap' = [heap EXCEPT ![self_articles] = r.articles]
           /\ ret' = r.ret
    /\ op' = [name |-> "set_selected", url |-> url, arg |-> selected]
    /\ before' = Stored
    /\ UNCHANGED self_articles
    /\ StoreFrame

SetSummary(url, summary) ==
    /\ pc = "store"
    /\ LET r == set_summary(Stored, url, summary)
       IN  /\ heap' = [heap EXCEPT ![self_articles] = r.articles]
           /\ ret' = r.ret
    /\ op' = [name |-> "set_summary", url |-> url, arg |-> summary]
    /\ before' = Stored
    /\ UNCHANGED self_articles
    /\ StoreFrame

ReviewCategory(url, cat) ==
    /\ pc \in {"store", "app"}
    /\ op' = [name |-> "review_category", url |-> url, arg |-> cat]
    /\ ret' = review_category(url, cat)
    /\ before' = Stored
    /\ UNCHANGED <<heap, self_articles>>
    /\ StoreFrame

NextStore ==
    \/ \E dicts \in StoreBatches : SetArticles(dicts)
    \/ ListArticles
    \/ GetSelected
    \/ \E url \in StoreUrls : DeleteByUrl(url)
    \/ \E url \in StoreUrls, selected \in BOOLEAN : SetSelected(url, selected)
    \/ \E url \in StoreUrls, summary \in SummaryTexts : SetSummary(url, summary)
    \/ \E url \in RouteUrls, cat \in RouteCategories : ReviewCategory(url, cat)

SpecStore == InitStore /\ [][NextStore]_vars

\* C16: after set_articles(dicts) the store holds one article per element
\* of dicts, in the order of dicts, with the title, URL and category of the
\* element (empty and the catch-all category when it has none), not
\* selected and with an empty summary, whatever the element or the store
\* held before.
C16_PopulateResets ==
    op.name = "set_articles" =>
        /\ Len(Stored) = Len(op.arg)
        /\ \A i \in 1..Len(Stored) :
              /\ Stored[i].title = Get(op.arg[i], "title", <<>>)
              /\ Stored[i].url = Get(op.arg[i], "url", <<>>)
              /\ Stored[i].category = Get(op.arg[i], "category", CatchAll)
              /\ Stored[i].selected = FALSE
              /\ Stored[i].summary = <<>>

\* C16 witness: a store of two articles, the first selected and with a
\* summary, was repopulated with one element that carries a selection flag
\* and a summary of its own; it holds that one article, reset.
C16_Witness ==
    /\ op.name = "set_articles"
    /\ Len(before) = 2
    /\ before[1].selected /\ before[1].summary = <<"s">>
    /\ op.arg = <<StoreItemB>>
    /\ Len(Stored) = 1
    /\ Stored[1].url = <<"v">>
    /\ ~Stored[1].selected /\ Stored[1].summary = <<>>

\* the positions of the articles with the URL of the last request
UrlHits == {i \in 1..Len(before) : before[i].url = op.url}

\* C18 as stated: delete_by_url removes the first article with the URL and
\* returns true, and all other articles stay, in their order; without such
\* an article it returns false and the store is as before.
C18_DeleteRemovesFirst ==
    op.name = "delete_by_url" =>
        IF UrlHits = {}
        THEN ret = FALSE /\ Stored = before
        ELSE LET i == FirstWithUrl(before, op.url)
             IN  /\ ret = TRUE
                 /\ Stored = SubSeq(before, 1, i - 1)
                                \o SubSeq(before, i + 1, Len(before))

\* C18 amended: delete_by_url removes every article with the URL and
\* returns true exactly when there was one; the other articles stay, with
\* their fields and in their order; without such an article the store is as
\* before; deleting one URL from three articles with distinct URLs leaves
\* two.
C18_DeleteRemovesAll ==
    op.name = "delete_by_url" =>
        LET others == (1..Len(before)) \ UrlHits
        IN  /\ ret = (UrlHits # {})
            /\ Len(Stored) = Cardinality(others)
            /\ \A n \in 1..Len(Stored) : Stored[n] = before[NthOf(others, n)]
            /\ UrlHits = {} => Stored = before
            /\ (/\ Len(before) = 3
                /\ \A i, j \in 1..3 : i # j => before[i].url # before[j].url
                /\ UrlHits # {}) => Len(list_articles(Stored)) = 2

\* C18 witness: of three articles with distinct URLs, the second selected,
\* the first was deleted; the other two are left as they were.
C18_Witness ==
    /\ op.name = "delete_by_url"
    /\ Len(before) = 3
    /\ \A i, j \in 1..3 : i # j => before[i].url # before[j].url
    /\ before[2].selected
    /\ UrlHits = {1}
    /\ ret = TRUE
    /\ Stored = <<before[2], before[3]>>

\* C19: set_selected and set_summary with a URL no article has return false
\* and leave the store as it was, the empty store included.
C19_UnknownUrlReturnsFalse ==
    (op.name \in {"set_selected", "set_summary"} /\ UrlHits = {}) =>
        /\ ret = FALSE
        /\ Stored = before
        /\ pc = "store"

\* C19 witness: set_selected("x", True) on the empty store returned false.
C19_Witness ==
    /\ op.name = "set_selected"
    /\ op.url = <<"x">>
    /\ op.arg = TRUE
    /\ before = <<>>
    /\ ret = FALSE
    /\ Stored = <<>>

\* C20: InMemoryStore has a method set_category, and a category-override
\* request with the URL of a stored article and a valid category is
\* answered with success and leaves that article in the given category.
C20_SetCategoryOffered ==
    (/\ op.name = "review_category"
     /\ op.url # None /\ op.arg # None
     /\ op.arg[1] \in ValidCategories
     /\ FirstWithUrl(before, op.url[1]) # 0) =>
        /\ "set_category" \in StoreMethods
        /\ ret.status = 200
        /\ Stored[FirstWithUrl(before, op.url[1])].category = op.arg[1]

\* the positions of the selected articles before the last request
SelectedPositions == {i \in 1..Len(before) : before[i].selected}

\* C21: get_selected returns one element per selected article, in the
\* order of the store, with exactly the fields title, url, category and
\* summary as the article has them now; list_articles returns one element
\* per article, in the order of the store, with exactly the fields title,
\* url, category, selected and summary; neither changes the store.
C21_ReadProjections ==
    /\ op.name = "get_selected" =>
          /\ Len(ret) = Cardinality(SelectedPositions)
          /\ \A n \in 1..Len(ret) :
                LET a == before[NthOf(SelectedPositions, n)]
                IN  /\ DOMAIN ret[n] = {"title", "url", "category", "summary"}
                    /\ ret[n].title = a.title
                    /\ ret[n].url = a.url
                    /\ ret[n].category = a.category
                    /\ ret[n].summary = a.summary
          /\ Stored = before
    /\ op.name = "list_articles" =>
          /\ Len(ret) = Len(before)
          /\ \A n \in 1..Len(ret) :
                /\ DOMAIN ret[n] =
                      {"title", "url", "category", "selected", "summary"}
                /\ \A f \in DOMAIN ret[n] : ret[n][f] = before[n][f]
          /\ Stored = before

\* C21 witness: of three stored articles the first and the last are
\* selected and the last has a summary; get_selected returned these two, in
\* this order, the second with its summary.
C21_Witness ==
    /\ op.name = "get_selected"
    /\ Len(before) = 3
    /\ SelectedPositions = {1, 3}
    /\ Len(ret) = 2
    /\ ret[1].url = <<"u">> /\ ret[1].category = "grupsa"
    /\ ret[2].url = <<"w">> /\ ret[2].summary = <<"s">>

-----------------------------------------------------------------------------
(* A request that populates the store while another request reads it.  A   *)
(* step is what one thread does between two points where the interpreter   *)
(* can switch threads: one iteration of a list comprehension, the load or   *)
(* the store of the attribute _articles.                                    *)

\* calls of set_articles in one run
MaxPopulates == 2

\* the store before the first populate: empty, or two articles of which the
\* first is selected and has a summary
OldStores ==
    { <<>>,
      set_selected(
          set_summary(set_articles(<<StoreItemA, StoreItemB>>),
                      <<"u">>, <<"s">>).articles,
          <<"u">>, TRUE).articles }

\* the batches of the populating requests
ThreadBatches == { <<StoreItemD>>, <<StoreItemC, StoreItemB>> }

InitThreads ==
    /\ pc = "threads"
    /\ articles = <<>>
    /\ keywords_by_category = DefaultMapping
    /\ title = <<>>
    /\ kept = <<>>
    /\ result = <<>>
    /\ category = CatchAll
    /\ CrawlIdle
    /\ file = NoFile
    /\ CallsIdle
    /\ SlackIdle
    /\ UpdatersIdle
    /\ \E old \in OldStores :
          /\ heap = [i \in {1} |-> old]
          /\ snapshots = {old}
    /\ self_articles = 1
    /\ op = [name |-> "__init__", url |-> <<>>, arg |-> <<>>]
    /\ ret = <<>>
    /\ before = <<>>
    /\ w_pc = "idle"
    /\ w_batch = <<>>
    /\ w_new = 0
    /\ populates = 0
    /\ r_pc = "idle"
    /\ r_kind = "list_articles"
    /\ r_ref = 0
    /\ r_pos = 0
    /\ r_out = <<>>

ThreadFrame ==
    UNCHANGED <<pc, pureVars, crawlVars, fileVars, callVars, slackVars,
                updateVars, op,
                before>>

\* set_articles clearing and refilling the list store._articles is bound to
NewListIsBoundList == self_articles

\* the list the comprehension of set_articles appends to: a new object
NewList == FreshId

\* set_articles is called: its comprehension starts with an empty list
SetArticlesBegin(dicts) ==
    /\ pc = "threads"
    /\ w_pc = "idle"
    /\ populates < MaxPopulates
    /\ LET id == NewList
       IN  /\ heap' = [i \in (DOMAIN heap) \cup {id} |->
                          IF i = id THEN <<>> ELSE heap[i]]
           /\ w_new' = id
    /\ w_batch' = dicts
    /\ w_pc' = "building"
    /\ populates' = populates + 1
    /\ UNCHANGED <<self_articles, ret, r_pc, r_kind, r_ref, r_pos, r_out,
                   snapshots>>
    /\ ThreadFrame

\* one iteration of the comprehension of set_articles
SetArticlesAppend ==
    /\ pc = "threads"
    /\ w_pc = "building"
    /\ Len(heap[w_new]) < Len(w_batch)
    /\ heap' = [heap EXCEPT ![w_new] =
                   Append(@, BuildArticle(w_batch[Len(@) + 1]))]
    /\ UNCHANGED <<self_articles, ret, w_pc, w_batch, w_new, populates, r_pc,
                   r_kind, r_ref, r_pos, r_out, snapshots>>
    /\ ThreadFrame

\* the comprehension is over: `self._articles = ...` and return
SetArticlesBind ==
    /\ pc = "threads"
    /\ w_pc = "building"
    /\ Len(heap[w_new]) >= Len(w_batch)
    /\ self_articles' = w_new
    /\ heap' = [i \in {w_new} \cup (IF r_pc = "iterating" THEN {r_ref} ELSE {})
                   |-> heap[i]]
    /\ snapshots' = snapshots \cup {heap[w_new]}
    /\ w_pc' = "idle"
    /\ UNCHANGED <<ret, w_batch, w_new, populates, r_pc, r_kind, r_ref,
                   r_pos, r_out>>
    /\ ThreadFrame

\* list_articles or get_selected is called: its comprehension takes the
\* list store._articles is bound to
ReadBegin(kind) ==
    /\ pc = "threads"
    /\ r_pc \in {"idle", "returned"}
    /\ r_kind' = kind
    /\ r_ref' = self_articles
    /\ r_pos' = 0
    /\ r_out' = <<>>
    /\ r_pc' = "iterating"
    /\ snapshots' = {Stored}
    /\ UNCHANGED <<heap, self_articles, ret, w_pc, w_batch, w_new, populates>>
    /\ ThreadFrame

\* one iteration of the comprehension of the reading thread
ReadNext ==
    /\ pc = "threads"
    /\ r_pc = "iterating"
    /\ r_pos < Len(heap[r_ref])
    /\ LET a == heap[r_ref][r_pos + 1]
       IN  r_out' = IF r_kind = "list_articles"
                    THEN Append(r_out, ListedArticle(a))
                    ELSE IF a.selected THEN Append(r_out, SelectedArticle(a))
                    ELSE r_out
    /\ r_pos' = r_pos + 1
    /\ UNCHANGED <<heap, self_articles, ret, w_pc, w_batch, w_new, populates,
                   r_pc, r_kind, r_ref, snapshots>>
    /\ ThreadFrame

\* the list is exhausted: the reading thread returns what it built
ReadReturn ==
    /\ pc = "threads"
    /\ r_pc = "iterating"
    /\ r_pos >= Len(heap[r_ref])
    /\ ret' = r_out
    /\ r_pc' = "returned"
    /\ heap' = [i \in {self_articles} \cup (IF w_pc = "building" THEN {w_new} ELSE {})
                   |-> heap[i]]
    /\ UNCHANGED <<self_articles, w_pc, w_batch, w_new, populates, r_kind,
                   r_ref, r_pos, r_out, snapshots>>
    /\ ThreadFrame

NextThreads ==
    \/ \E dicts \in ThreadBatches : SetArticlesBegin(dicts)
    \/ SetArticlesAppend
    \/ SetArticlesBind
    \/ \E kind \in {"list_articles", "get_selected"} : ReadBegin(kind)
    \/ ReadNext
    \/ ReadReturn

SpecThreads == InitThreads /\ [][NextThreads]_vars

\* what a reader of the kind `kind` returns for the articles arts
ViewOf(kind, arts) ==
    IF kind = "list_articles" THEN list_articles(arts) ELSE get_selected(arts)

\* C17: what list_articles or get_selected returns while set_articles runs
\* in another thread is its view of one complete list of articles that
\* store._articles was bound to during the call: the list before a populate
\* or the list after it, never a part of one or a mixture of two.
C17_ReaderSeesOneSnapshot ==
    r_pc = "returned" =>
        \E arts \in snapshots : r_out = ViewOf(r_kind, arts)

\* C17 witness: get_selected began on the old list, set_articles bound a
\* new list of two articles before it returned, and it returned the view
\* of the old list with its selected article.
C17_Witness ==
    /\ r_pc = "returned"
    /\ r_kind = "get_selected"
    /\ Cardinality(snapshots) = 2
    /\ Len(Stored) = 2
    /\ get_selected(Stored) = <<>>
    /\ Len(r_out) = 1
    /\ r_out[1].url = <<"u">>
    /\ r_out[1].summary = <<"s">>

-----------------------------------------------------------------------------
(* The application under every sequence of requests to its routes           *)

\* what the provider can have returned to one collection run
AppRawBatches == {TestBatch, DatedBatch}

\* the field url of a request: missing, empty, the URL of the first stub
\* article, of the second article of DatedBatch, of no article
AppUrls == {None, Some(<<>>), Some(<<"a">>), Some(<<"f">>), Some(<<"x">>)}

\* the field selected of a select request
AppSelected == {None, Some(FALSE)}

IntField(accepted, value) == [is_int |-> accepted, value |-> value]

DictField(is_dict, items, lists) ==
    [is_dict |-> is_dict, items |-> items, lists |-> lists]

\* settings requests: a keyword for one category; a category that is not
\* one of the three; the catch-all category; a list for the dict; no age
\* limit with a keyword string; a cap of 0
SettingsRequests ==
    { SettingsRequest(None, None,
          Some(DictField(TRUE, Mapping(<<"chamgo">>, << <<<<"d">>>> >>), TRUE)),
          None),
      SettingsRequest(None, None,
          Some(DictField(TRUE, Mapping(<<"etc">>, << <<<<"d">>>> >>), TRUE)),
          None),
      SettingsRequest(None, None,
          Some(DictField(TRUE, Mapping(<<CatchAll>>, << <<<<"w">>>> >>), TRUE)),
          None),
      SettingsRequest(None, None, Some(DictField(FALSE, <<>>, FALSE)), None),
      SettingsRequest(Some([is_str |-> TRUE, value |-> <<<<"A">>>>]), None,
          None, Some(IntField(TRUE, 0))),
      SettingsRequest(None, Some(IntField(TRUE, 0)), None, None) }

\* every save goes well, or the one of the categories fails half-way
AppSaveOutcomes ==
    { [keywords |-> "written", max_articles |-> "written",
       category_keywords |-> "written", max_age_hours |-> "written"],
      [keywords |-> "written", max_articles |-> "written",
       category_keywords |-> "truncated", max_age_hours |-> "written"] }

NoRetryAfter == None

\* a Retry-After header that holds an HTTP date
DateRetryAfter == Some(<<"F", "r", "i", ",", " ", "3", "1">>)

\* deliveries: accepted at once; refused by the API; the network down
\* throughout; a 429 with a date in Retry-After
AppDeliveries ==
    { [n \in 1..SlackMaxAttempts |-> SlackOutcome("ok", "", 200, NoRetryAfter)],
      [n \in 1..SlackMaxAttempts |->
          SlackOutcome("api_error", "channel_not_found", 200, NoRetryAfter)],
      [n \in 1..SlackMaxAttempts |-> SlackOutcome("url_error", "", 0, NoRetryAfter)],
      [n \in 1..SlackMaxAttempts |->
          SlackOutcome("http_error", "", 429, DateRetryAfter)] }

InitApp ==
    /\ pc = "app"
    /\ articles = <<>>
    /\ keywords_by_category = DefaultMapping
    /\ title = <<>>
    /\ kept = <<>>
    /\ result = <<>>
    /\ category = CatchAll
    /\ cfg_ready \in BOOLEAN
    /\ stored = [query_keywords |-> <<>>, category_keywords |-> <<>>,
                 max_articles |-> 30, max_age_hours |-> 24]
    /\ keywords = <<>>
    /\ user_keywords = None
    /\ user_max_articles = None
    /\ user_category_keywords = None
    /\ user_max_age_hours = None
    /\ now = AgeNow
    /\ kw_list = <<>>
    /\ max_per_keyword = 0
    /\ kw_index = 0
    /\ remaining = 0
    /\ batch = 0
    /\ attempts = 0
    /\ success = FALSE
    /\ raw_articles = <<>>
    /\ failures = 0
    /\ max_age_hours = None
    /\ calls = <<>>
    /\ page_no = 0
    /\ sleeps = 0
    /\ file = NoFile
    /\ CallsIdle
    /\ StoreIdle
    /\ slack_articles = <<>>
    /\ slack_configured \in BOOLEAN
    /\ slack_outcomes = <<>>
    /\ slack_text = <<>>
    /\ slack_result = <<>>
    /\ UpdatersIdle

\* what no route touches
AppFrame ==
    UNCHANGED <<pc, pureVars, crawlVars, callVars, threadVars, slackVars,
                updateVars>>

\* what a route does to the ghost variables
Answered(name, url, arg, response) ==
    /\ op' = [name |-> name, url |-> url, arg |-> arg]
    /\ ret' = response
    /\ before' = Stored

CollectNews(raw) ==
    /\ pc = "app"
    /\ LET r == collect_news(file, cfg_ready, raw, now)
       IN  /\ Rebind(r.articles)
           /\ Answered("collect_news", None, raw, r.response)
    /\ UNCHANGED file
    /\ AppFrame

SummarizeNews(url) ==
    /\ pc = "app"
    /\ LET r == summarize_news(Stored, url)
       IN  /\ heap' = [heap EXCEPT ![self_articles] = r.articles]
           /\ Answered("summarize_news", url, <<>>, r.response)
    /\ UNCHANGED <<self_articles, file>>
    /\ AppFrame

SendSlack(outcomes) ==
    /\ pc = "app"
    /\ LET r == send_slack(Stored, slack_configured, outcomes)
       IN  /\ heap' = [heap EXCEPT ![self_articles] = r.articles]
           /\ Answered("send_slack", None, outcomes, r.response)
    /\ UNCHANGED <<self_articles, file>>
    /\ AppFrame

ReviewList ==
    /\ pc = "app"
    /\ LET r == review_list(Stored)
       IN  /\ heap' = [heap EXCEPT ![self_articles] = r.articles]
           /\ Answered("review_list", None, <<>>, r.response)
    /\ UNCHANGED <<self_articles, file>>
    /\ AppFrame

ReviewDelete(url) ==
    /\ pc = "app"
    /\ LET r == review_delete(Stored, url)
       IN  /\ IF r.rebound THEN Rebind(r.articles)
              ELSE UNCHANGED <<heap, self_articles>>
           /\ Answered("review_delete", url, <<>>, r.response)
    /\ UNCHANGED file
    /\ AppFrame

ReviewSelect(url, selected) ==
    /\ pc = "app"
    /\ LET r == review_select(Stored, url, selected)
       IN  /\ heap' = [heap EXCEPT ![self_articles] = r.articles]
           /\ Answered("review_select", url, selected, r.response)
    /\ UNCHANGED <<self_articles, file>>
    /\ AppFrame

SettingsSave(req, hows) ==
    /\ pc = "app"
    /\ LET r == settings_save(file, req, hows)
       IN  /\ file' = r.file
           /\ Answered("settings_save", None, req, r.response)
    /\ UNCHANGED <<heap, self_articles>>
    /\ AppFrame

SettingsGet ==
    /\ pc = "app"
    /\ Answered("settings_get", None, <<>>, settings_get(file))
    /\ UNCHANGED <<heap, self_articles, file>>
    /\ AppFrame

NextApp ==
    \/ \E raw \in AppRawBatches : CollectNews(raw)
    \/ \E url \in AppUrls : SummarizeNews(url)
    \/ \E outcomes \in AppDeliveries : SendSlack(outcomes)
    \/ ReviewList
    \/ \E url \in AppUrls : ReviewDelete(url)
    \/ \E url \in AppUrls, selected \in AppSelected : ReviewSelect(url, selected)
    \/ \E url \in AppUrls, cat \in RouteCategories : ReviewCategory(url, cat)
    \/ \E req \in SettingsRequests, hows \in AppSaveOutcomes :
          SettingsSave(req, hows)
    \/ SettingsGet

SpecApp == InitApp /\ [][NextApp]_vars

\* C22: whatever requests the application has answered (collection, delete,
\* select, summarize, category override, delivery, settings), every article
\* of the review store has one of the four categories.
C22_CategoryAlwaysValid ==
    \A i \in 1..Len(Stored) :
        /\ "category" \in DOMAIN Stored[i]
        /\ Stored[i].category \in ValidCategories

\* C22 witness: a keyword was saved for the third category and a
\* collection put an article into it; a settings request for a fifth
\* category was refused, and so was an override of that article with it.
C22_Witness ==
    /\ op.name = "review_category"
    /\ op.url = Some(<<"a">>)
    /\ op.arg = Some("etc")
    /\ ret.status = 400
    /\ Len(Stored) > 1
    /\ Stored[1].url = <<"a">>
    /\ Stored[1].category = "chamgo"
    /\ Stored[2].category = CatchAll

\* C23: a delivery request leaves the review store as it found it, whether
\* the message was delivered, refused, or the delivery raised: the same
\* articles in the same order with the same fields.
C23_SendLeavesStore ==
    op.name = "send_slack" =>
        /\ Stored = before
        /\ list_articles(Stored) = list_articles(before)

\* C23 witness: with an article selected, one delivery was accepted by
\* Slack.
C23_Witness ==
    /\ op.name = "send_slack"
    /\ slack_configured
    /\ \E i \in 1..Len(before) : before[i].selected
    /\ ret.status = 200
    /\ ret.body.success
    /\ ret.body.message = <<"sent">>

-----------------------------------------------------------------------------
(* crawl_naver_news with and without each of its overrides                  *)

\* a mapping that puts the titles of DatedBatch into the second category
OverrideMapping == Mapping(<<"eopgye">>, << <<<<"w">>>> >>)

InitOverride ==
    /\ pc = "start"
    /\ articles = <<>>
    /\ keywords_by_category = <<>>
    /\ title = <<>>
    /\ kept = <<>>
    /\ result = <<>>
    /\ category = CatchAll
    /\ cfg_ready \in BOOLEAN
    /\ stored \in [query_keywords : {<<>>, <<<<"A">>>>},
                   category_keywords : {TestMapping},
                   max_articles : {1},
                   max_age_hours : {24}]
    /\ keywords \in {<<>>, <<<<"C">>>>}
    /\ user_keywords \in {None, Some(<<>>), Some(<<<<" ">>>>), Some(<<<<"B">>>>)}
    /\ user_max_articles \in {None, Some(0), Some(2)}
    /\ user_category_keywords \in {None, Some(<<>>), Some(OverrideMapping)}
    /\ user_max_age_hours \in {None, Some(0), Some(1)}
    /\ now = AgeNow
    /\ kw_list = <<>>
    /\ max_per_keyword = 0
    /\ kw_index = 0
    /\ remaining = 0
    /\ batch = 0
    /\ attempts = 0
    /\ success = FALSE
    /\ raw_articles = <<>>
    /\ failures = 0
    /\ max_age_hours = None
    /\ calls = <<>>
    /\ page_no = 0
    /\ sleeps = 0
    /\ OthersIdle

\* the provider answers with the dated batch or fails
NextOverride ==
    \/ Start
    \/ EnterLoop
    \/ FetchOk(DatedBatch)
    \/ FetchFail
    \/ FilterByAge
    \/ Curate

SpecOverride == InitOverride /\ [][NextOverride]_vars

\* the items of all calls that returned, in the order of the calls
RECURSIVE FetchedFrom(_)
FetchedFrom(i) ==
    IF i > Len(calls) THEN <<>>
    ELSE (IF calls[i].ok THEN calls[i].items ELSE <<>>) \o FetchedFrom(i + 1)

\* what the age filter is given
Aggregate == IF cfg_ready THEN FetchedFrom(1) ELSE StubArticles

\* the settings are chosen, the age limit is chosen, the mapping is chosen
SettingsChosen == pc \in {"for", "fetch", "filter", "curate", "done"}
AgeChosen == pc \in {"curate", "done"}
MappingChosen == pc = "done"

\* the choice of the cap, the age limit and the mapping: the override when
\* it is not None, the keyword store otherwise; an override of 0 hours
\* leaves the aggregate unfiltered
OverridesButKeywords ==
    /\ (SettingsChosen /\ cfg_ready) =>
          max_per_keyword = (IF user_max_articles # None
                             THEN user_max_articles[1] ELSE stored.max_articles)
    /\ AgeChosen =>
          max_age_hours = (IF user_max_age_hours # None THEN user_max_age_hours
                           ELSE Some(stored.max_age_hours))
    /\ MappingChosen =>
          keywords_by_category = (IF user_category_keywords # None
                                  THEN user_category_keywords[1]
                                  ELSE stored.category_keywords)
    /\ (AgeChosen /\ user_max_age_hours = Some(0)) =>
          raw_articles = Aggregate

\* C24 as stated: every setting is the override when one is given and the
\* value of the keyword store otherwise.
C24_OverrideElseStore ==
    /\ OverridesButKeywords
    /\ (SettingsChosen /\ cfg_ready) =>
          kw_list = (IF user_keywords # None THEN SplitKeywords(user_keywords[1])
                     ELSE SplitKeywords(stored.query_keywords))

\* C24 amended: the keywords are those of user_keywords when it is a
\* non-empty string, else those of the stored string when that is
\* non-empty, else those of the argument `keywords`; the cap, the age limit
\* and the category mapping are the override when it is not None (0 and the
\* empty mapping included) and the value of the keyword store otherwise; an
\* override of 0 hours leaves the aggregate unfiltered.
C24_OverrideElseStoreElseArgument ==
    /\ OverridesButKeywords
    /\ (SettingsChosen /\ cfg_ready) =>
          kw_list = (IF user_keywords # None /\ user_keywords[1] # <<>>
                     THEN SplitKeywords(user_keywords[1])
                     ELSE IF stored.query_keywords # <<>>
                     THEN SplitKeywords(stored.query_keywords)
                     ELSE SplitKeywords(keywords))

\* C24 witness: with 24 hours stored and an override of 0 hours, a stored
\* keyword and a keyword override, the run asked for the override keyword
\* and returned the dated batch unfiltered, the item older than 24 hours
\* first.
C24_Witness ==
    /\ pc = "done"
    /\ cfg_ready
    /\ stored.max_age_hours = 24
    /\ user_max_age_hours = Some(0)
    /\ stored.query_keywords = <<<<"A">>>>
    /\ user_keywords = Some(<<<<"B">>>>)
    /\ \A i \in 1..Len(calls) : calls[i].query = <<"B">>
    /\ raw_articles = DatedBatch
    /\ user_category_keywords = Some(OverrideMapping)
    /\ Len(result) = 1
    /\ result[1].url = <<"o">>
    /\ result[1].category = "eopgye"

-----------------------------------------------------------------------------
(* send_message_to_slack under every course of its delivery attempts        *)

\* Retry-After headers: absent, empty, a number of seconds, a negative
\* number, an HTTP date
RetryAfters ==
    {None, Some(<<>>), Some(<<"2">>), Some(<<"-", "1">>), DateRetryAfter}

\* what an attempt can meet
SlackOutcomes ==
    {SlackOutcome("ok", "", 200, None),
     SlackOutcome("url_error", "", 0, None),
     SlackOutcome("exception", "", 0, None),
     SlackOutcome("http_error", "", 404, DateRetryAfter),
     SlackOutcome("http_error", "", 500, None)}
    \cup {SlackOutcome("api_error", e, 200, None) :
            e \in {"channel_not_found", "unknown_error", "upstream_server_error"}}
    \cup {SlackOutcome("api_error", "rate_limited", 200, h) : h \in RetryAfters}
    \cup {SlackOutcome("http_error", "", 429, h) : h \in RetryAfters}

\* one selected article as get_selected returns it
SentArticle ==
    [title |-> <<"a">>, url |-> <<"u">>, category |-> "grupsa",
     summary |-> <<"s">>]

InitSlack ==
    /\ pc = "slack"
    /\ articles = <<>>
    /\ keywords_by_category = DefaultMapping
    /\ title = <<>>
    /\ kept = <<>>
    /\ result = <<>>
    /\ category = CatchAll
    /\ CrawlIdle
    /\ file = NoFile
    /\ CallsIdle
    /\ StoreIdle
    /\ slack_articles \in {<<>>, <<SentArticle>>}
    /\ slack_configured \in BOOLEAN
    /\ slack_outcomes \in [1..SlackMaxAttempts -> SlackOutcomes]
    /\ slack_text = <<>>
    /\ slack_result = <<>>
    /\ UpdatersIdle

CallSend ==
    /\ pc = "slack"
    /\ slack_result' =
          send_message_to_slack(slack_articles, slack_configured, slack_outcomes)
    /\ pc' = "sent"
    /\ UNCHANGED <<pureVars, crawlVars, fileVars, callVars, storeVars,
                   threadVars, updateVars, slack_articles, slack_configured,
                   slack_outcomes, slack_text>>

NextSlack == CallSend

SpecSlack == InitSlack /\ [][NextSlack]_vars

\* C25: send_message_to_slack returns a pair of a truth value and a message
\* and raises nothing, whatever its attempts meet: success, an error
\* response, an HTTP error with any Retry-After header or none, a network
\* error, another exception.
C25_AlwaysReturnsPair ==
    pc = "sent" =>
        /\ ~slack_result.raised
        /\ slack_result.success \in BOOLEAN
        /\ slack_result.message # <<>>

-----------------------------------------------------------------------------
(* format_slack_message on every list of at most MaxItems articles          *)

\* articles: two of the first category; one without summary; one without
\* URL; one with neither category nor title nor summary; one of a fifth
\* category; one of the catch-all category with neither title nor URL
FormatItems ==
    { SentArticle,
      [title |-> <<"f">>, url |-> <<"y">>, category |-> "grupsa",
       summary |-> <<"t">>],
      [title |-> <<"b">>, url |-> <<"v">>, category |-> "eopgye",
       summary |-> <<>>],
      [title |-> <<"c">>, url |-> <<>>, category |-> "chamgo",
       summary |-> <<"s">>],
      [url |-> <<"w">>],
      [title |-> <<"e">>, url |-> <<"x">>, category |-> "etc",
       summary |-> <<>>],
      [title |-> <<>>, url |-> <<>>, category |-> CatchAll,
       summary |-> <<>>] }

InitFormat ==
    /\ pc = "format"
    /\ articles = <<>>
    /\ keywords_by_category = DefaultMapping
    /\ title = <<>>
    /\ kept = <<>>
    /\ result = <<>>
    /\ category = CatchAll
    /\ CrawlIdle
    /\ file = NoFile
    /\ CallsIdle
    /\ StoreIdle
    /\ slack_articles \in SeqsUpTo(FormatItems, MaxItems)
    /\ slack_configured = FALSE
    /\ slack_outcomes = <<>>
    /\ slack_text = <<>>
    /\ slack_result = <<>>
    /\ UpdatersIdle

CallFormat ==
    /\ pc = "format"
    /\ slack_text' = format_slack_message(slack_articles)
    /\ pc' = "formatted"
    /\ UNCHANGED <<pureVars, crawlVars, fileVars, callVars, storeVars,
                   threadVars, updateVars, slack_articles, slack_configured,
                   slack_outcomes, slack_result>>

NextFormat == CallFormat

SpecFormat == InitFormat /\ [][NextFormat]_vars

\* the category an article is filed under
FiledUnder(a) == Get(a, "category", CatchAll)

\* the four categories in the order of the headings
FixedOrder == <<"grupsa", "eopgye", "chamgo", CatchAll>>

\* the summary part of an article's line
SummaryPart(a) ==
    IF Get(a, "summary", <<>>) # <<>>
    THEN <<" ", "~", " ">> \o Get(a, "summary", <<>>)
    ELSE <<>>

\* an article's line as a link
LinkLine(a) ==
    <<"@", " ", "<">> \o Get(a, "url", <<>>) \o <<"|">>
        \o Get(a, "title", <<>>) \o <<">">> \o SummaryPart(a)

\* an article's line: a link when it has both a URL and a title, else
\* whichever of the two it has
LinkOrBareLine(a) ==
    IF Get(a, "url", <<>>) # <<>> /\ Get(a, "title", <<>>) # <<>>
    THEN LinkLine(a)
    ELSE <<"@", " ">> \o Get(a, "title", <<>>) \o Get(a, "url", <<>>)
             \o SummaryPart(a)

\* The message made of the header and, for every one of the four categories
\* that has an article, in the fixed order, its heading, the lines
\* Line(a) of its articles in input order and an empty line; stripped.
RECURSIVE GroupedLines(_, _, _)
GroupedLines(arts, Line(_), i) ==
    IF i > Len(FixedOrder) THEN <<>>
    ELSE LET mine == SelectSeq(arts, LAMBDA a : FiledUnder(a) = FixedOrder[i])
         IN  (IF mine = <<>> THEN <<>>
              ELSE << <<"*[", FixedOrder[i], "]*">> >>
                   \o [j \in 1..Len(mine) |-> Line(mine[j])]
                   \o << <<>> >>)
             \o GroupedLines(arts, Line, i + 1)

GroupedMessage(arts, Line(_)) ==
    strip(JoinLines(<< <<":newspaper:", " ", "*clipping*", "\n">> >>
                    \o GroupedLines(arts, Line, 1)))

-----------------------------------------------------------------------------
(* The fetch loop of crawl_naver_news: pages, delays and caps               *)

\* the pages of 100 items it takes to cover a cap
PagesToCover(cap) == (cap + 99) \div 100

\* the calls one keyword can take with `cap` items left to get
CallsToCover(cap) == IF cap > 0 THEN 3 * PagesToCover(cap) ELSE 0

\* An upper bound of the steps crawl_naver_news has left: 0 once it has
\* returned; in the loop, the calls the current page and the rest of the
\* cap can take, and one more than a whole keyword can take for every
\* keyword to come.
StepsLeft ==
    CASE pc = "done" -> 0
      [] pc = "curate" -> 1
      [] pc = "filter" -> 2
      [] pc = "fetch" ->
            3 + (CallsToCover(remaining) - attempts)
              + (Len(kw_list) - kw_index) * (CallsToCover(max_per_keyword) + 1)
      [] pc = "for" ->
            4 + Len(kw_list) * (CallsToCover(max_per_keyword) + 1)
      [] pc = "start" ->
            5 + Len(ChooseKeywords) * (CallsToCover(ChooseMaxPerKeyword) + 1)
      [] OTHER -> 0 - 1

\* C27: whatever the provider does (each call fails or returns any number
\* of items) and whatever positive cap is set, crawl_naver_news makes at
\* most 3 calls per page needed to cover the cap for any one keyword, and
\* it returns: every step takes it closer to its return by a measure that
\* is never negative.
C27_BoundedCallsAndReturn ==
    /\ [](\A k \in 1..Len(kw_list) :
            Cardinality(CallsOfKeyword(k)) <= 3 * PagesToCover(max_per_keyword))
    /\ [](StepsLeft >= 0)
    /\ [][StepsLeft' < StepsLeft]_vars

\* C27 witness: with a cap of 101 the first page came full on the third
\* attempt and the second page failed 3 times: 6 calls for the keyword, and
\* the run returned.
C27_Witness ==
    /\ pc = "done"
    /\ max_per_keyword = 101
    /\ Len(calls) = 6
    /\ \A i \in 1..6 : calls[i].kw_index = 1
    /\ ~calls[1].ok /\ ~calls[2].ok
    /\ calls[3].ok /\ Len(calls[3].items) = 100
    /\ \A i \in 4..6 : ~calls[i].ok /\ calls[i].display = 1

\* the number of items the calls before the i-th returned for its keyword
RECURSIVE ReturnedBefore(_, _)
ReturnedBefore(i, h) ==
    IF h >= i THEN 0
    ELSE (IF calls[h].kw_index = calls[i].kw_index /\ calls[h].ok
          THEN Len(calls[h].items) ELSE 0) + ReturnedBefore(i, h + 1)

\* C28: every page is requested with the size of what the cap leaves once
\* the items of the earlier pages of the keyword are subtracted (100 at
\* most); after a page with fewer items than requested, none included, no
\* further call is made for the keyword, whatever the cap leaves.
C28_SubtractAndExhaust ==
    /\ \A i \in 1..Len(calls) :
          calls[i].display
              = Min(100, max_per_keyword - ReturnedBefore(i, 1))
    /\ \A i \in 1..Len(calls) :
          (calls[i].ok /\ Len(calls[i].items) < calls[i].display) =>
              /\ \A j \in 1..Len(calls) :
                    j > i => calls[j].kw_index # calls[i].kw_index
              /\ (pc = "fetch" => kw_index # calls[i].kw_index)

\* C28 witness: with a cap of 5 the first keyword got 2 items, which left
\* 3, and no second page; the next call was made for the second keyword.
C28_Witness ==
    /\ Len(calls) >= 2
    /\ max_per_keyword = 5
    /\ calls[1].kw_index = 1 /\ calls[1].ok /\ calls[1].display = 5
    /\ Len(calls[1].items) = 2
    /\ calls[2].kw_index = 2 /\ calls[2].display = 5

\* C29: time.sleep was called once for every call of the provider made so
\* far, failed or not: before the next call, and at the end of the loop,
\* there are as many delays as calls.
C29_OneDelayPerAttempt == sleeps = Len(calls)

\* C29 witness: a keyword was given up after 3 failed calls, a second one
\* got its page at once; 4 calls, 4 delays.
C29_Witness ==
    /\ pc = "done"
    /\ Len(calls) = 4
    /\ \A i \in 1..3 : calls[i].kw_index = 1 /\ ~calls[i].ok
    /\ calls[4].kw_index = 2 /\ calls[4].ok
    /\ sleeps = 4

\* C30: every keyword is first asked for min(100, cap) items, whatever the
\* keywords before it were given or failed to get; whenever a call is about
\* to be made its size is min(100, remaining); and if no call returned more
\* items than it asked for, no keyword has more than `cap` items returned.
C30_CapPerKeyword ==
    /\ (LoopDone /\ cfg_ready /\ max_per_keyword > 0) =>
          \A k \in 1..Len(kw_list) : CallsOfKeyword(k) # {}
    /\ \A k \in 1..Len(kw_list) : \A i \in CallsOfKeyword(k) :
          (\A h \in CallsOfKeyword(k) : i <= h) =>
              calls[i].display = Min(100, max_per_keyword)
    /\ (pc = "fetch" /\ CallsOfKeyword(kw_index) = {}) =>
          remaining = max_per_keyword
    /\ pc = "fetch" => batch = Min(100, remaining)
    /\ (\A i \in 1..Len(calls) : Len(calls[i].items) <= calls[i].display) =>
          \A k \in 1..Len(kw_list) : Len(ItemsOfKeyword(k)) <= max_per_keyword

\* C30 witness: with a cap of 5 the first keyword got a full page of 5, and
\* the second keyword was asked for 5 again and got 3.
C30_Witness ==
    /\ pc = "done"
    /\ max_per_keyword = 5
    /\ Len(calls) = 2
    /\ calls[1].kw_index = 1 /\ calls[1].display = 5
    /\ Len(ItemsOfKeyword(1)) = 5
    /\ calls[2].kw_index = 2 /\ calls[2].display = 5
    /\ Len(ItemsOfKeyword(2)) = 3

-----------------------------------------------------------------------------
(* crawl_naver_news: the age filter and the curation pipeline               *)

\* the item is within the horizon the run chose (every item is when the
\* filter is off)
InHorizon(a) ==
    \/ max_age_hours = None
    \/ max_age_hours[1] <= 0
    \/ FreshEnough(a, max_age_hours[1])

\* the items of the aggregate within the horizon, in their order
AggregateInHorizon == SelectSeq(Aggregate, InHorizon)

\* C31: nothing is filtered or curated while keywords are processed (the
\* list holds every item the provider returned, no result exists); the
\* result is what the curation pipeline makes of the in-horizon items of
\* the whole aggregate alone; so every in-horizon item that is no
\* advertorial and has a title is represented in the result by an
\* in-horizon item with its URL or its normalized title, also when an item
\* out of the horizon (or without timestamp) with that URL or title came
\* before it.
C31_AgeFilterBeforeCuration ==
    /\ pc \in {"for", "fetch", "filter"} =>
          /\ raw_articles = Aggregate
          /\ result = <<>>
    /\ pc = "done" =>
          /\ result = curate(AggregateInHorizon, keywords_by_category)
          /\ \A i \in 1..Len(Aggregate) :
                (/\ InHorizon(Aggregate[i])
                 /\ NotAdvertorial(Aggregate[i])
                 /\ NormTitleOf(Aggregate[i]) # <<>>)
                => \E j \in 1..Len(result) :
                      /\ InHorizon(result[j])
                      /\ \/ SameUrl(result[j], Aggregate[i])
                         \/ SameNormTitle(result[j], Aggregate[i])

\* C31 witness: the provider returned an item older than the 24 hours of
\* the run and after it an item within them under the same title; the
\* result holds the second one.
C31_Witness ==
    /\ pc = "done"
    /\ cfg_ready
    /\ max_age_hours = Some(24)
    /\ \E i, h \in 1..Len(Aggregate) :
          /\ i < h
          /\ ~InHorizon(Aggregate[i])
          /\ InHorizon(Aggregate[h])
          /\ SameNormTitle(Aggregate[i], Aggregate[h])
          /\ \E j \in 1..Len(result) : result[j].url = Aggregate[h].url

-----------------------------------------------------------------------------
(* crawl_naver_news: the offset of the pages                                *)

\* s is the beginning of t
IsPrefix(s, t) == Len(s) <= Len(t) /\ SubSeq(t, 1, Len(s)) = s

\* the calls for the k-th keyword that returned
AnsweredCalls(k) == {i \in CallsOfKeyword(k) : calls[i].ok}

\* the provider gave the k-th keyword no more items than asked for, and to
\* two calls with one offset the same items, as many as each asked for
SameAnswerForSameOffset(k) ==
    /\ \A i \in AnsweredCalls(k) : Len(calls[i].items) <= calls[i].display
    /\ \A i, h \in AnsweredCalls(k) :
          calls[i].start = calls[h].start =>
             \/ IsPrefix(calls[i].items, calls[h].items)
             \/ IsPrefix(calls[h].items, calls[i].items)

\* C32: every call of the provider carries start = 1, the calls for the
\* second and later pages of a keyword included; and when the provider
\* answered one keyword's calls consistently, what deduplicate keeps of the
\* items of that keyword is at most one page of 100, whatever the cap.
C32_StartAlwaysOne ==
    /\ \A i \in 1..Len(calls) : calls[i].start = 1
    /\ (pc = "done" /\ cfg_ready) =>
          \A k \in 1..Len(kw_list) :
              SameAnswerForSameOffset(k) =>
                  Len(deduplicate(ItemsOfKeyword(k))) <= PageCap

\* C32 witness: with a cap of 101 the keyword got a full page of 100 and
\* asked for one more item, again from offset 1; it got the first item a
\* second time, and 100 articles are returned.
C32_Witness ==
    /\ pc = "done"
    /\ max_per_keyword = PageCap + 1
    /\ Len(calls) = 2
    /\ calls[1].ok /\ calls[1].display = PageCap /\ calls[1].start = 1
    /\ calls[2].ok /\ calls[2].display = 1 /\ calls[2].start = 1
    /\ calls[2].page > calls[1].page
    /\ Len(calls[1].items) = PageCap
    /\ calls[2].items = <<calls[1].items[1]>>
    /\ Len(ItemsOfKeyword(1)) = PageCap + 1
    /\ Len(result) = PageCap

-----------------------------------------------------------------------------
(* deduplicate: what the seen sets hold                                     *)

\* an article of the input before articles[j] that is in the output and
\* has its URL or its normalized title
KeptTwinBefore(j) ==
    \E h \in KeptPositions :
        /\ h < j
        /\ \/ SameUrl(articles[h], articles[j])
           \/ SameNormTitle(articles[h], articles[j])

\* C33: an article with a normalized title is in the output exactly when no
\* article of the output before it has its URL or its normalized title;
\* the articles that were skipped before it do not count, neither the title
\* of one skipped for its URL nor the URL of one skipped for its title.
C33_OnlyAcceptedAreSeen ==
    pc = "deduplicated" =>
        \A j \in 1..Len(articles) :
            NormTitleOf(articles[j]) # <<>> =>
                (j \in KeptPositions <=> ~KeptTwinBefore(j))

\* C33 witness: the second article repeats the title of the first under
\* another URL and is skipped; the third has the URL of the second under a
\* new title and is in the output.
C33_Witness ==
    /\ pc = "deduplicated"
    /\ Len(articles) = 3
    /\ kept = <<1, 3>>
    /\ SameNormTitle(articles[1], articles[2])
    /\ ~SameUrl(articles[1], articles[2])
    /\ SameUrl(articles[2], articles[3])
    /\ ~SameNormTitle(articles[2], articles[3])

-----------------------------------------------------------------------------
(* curate and its arguments                                                 *)

\* C34: a call of curate leaves the list it was given, every dict of it
\* and the keyword mapping as they were; every item it returns is one
\* item of the input with a category added, and the items are returned in
\* the order in which they stand in the input.
C34_CurateIsPure ==
    [][pc' = "curated" =>
          /\ articles' = articles
          /\ keywords_by_category' = keywords_by_category
          /\ Len(kept') = Len(result')
          /\ \A n \in 1..Len(result') :
                /\ kept'[n] \in 1..Len(articles)
                /\ result'[n] = curate_run(articles, keywords_by_category).curated[n]
                /\ WithoutKey(result'[n], "category") = articles[kept'[n]]
                /\ "category" \notin DOMAIN articles[kept'[n]]
          /\ \A m, n \in 1..Len(kept') : m < n => kept'[m] < kept'[n]]_vars

\* C34 witness: of three items the first and the third were returned, in
\* this order and with a category; the three items given have none.
C34_Witness ==
    /\ pc = "curated"
    /\ Len(articles) = 3
    /\ kept = <<1, 3>>
    /\ Len(result) = 2
    /\ \A n \in 1..2 : "category" \in DOMAIN result[n]
    /\ \A i \in 1..3 : "category" \notin DOMAIN articles[i]
    /\ result[1].title # result[2].title

-----------------------------------------------------------------------------
(* set_selected and set_summary on a stored URL                             *)

\* the first article of the store, as it was, with the URL of the call
FirstHit == CHOOSE i \in UrlHits : \A h \in UrlHits : i <= h

\* C35: set_selected and set_summary called with the URL of a stored
\* article return true; the store holds as many articles as before, every
\* article but the first with the URL is as it was, and the first with the
\* URL is as it was but for the field of the call, which holds the value
\* given, whatever it held before.
C35_SetOneFieldOfFirst ==
    (op.name \in {"set_selected", "set_summary"} /\ UrlHits # {}) =>
        /\ ret = TRUE
        /\ Len(Stored) = Len(before)
        /\ \A j \in 1..Len(before) : j # FirstHit => Stored[j] = before[j]
        /\ Stored[FirstHit] =
              IF op.name = "set_selected"
              THEN [before[FirstHit] EXCEPT !.selected = op.arg]
              ELSE [before[FirstHit] EXCEPT !.summary = op.arg]

\* C35 witness: of three articles the first and the last have the URL and
\* the first has a summary; set_summary with another text replaced it and
\* left the last article without summary.
C35_Witness ==
    /\ op.name = "set_summary"
    /\ Len(before) = 3
    /\ UrlHits = {1, 3}
    /\ before[1].summary # <<>>
    /\ op.arg # before[1].summary
    /\ ret = TRUE
    /\ Stored[1].summary = op.arg
    /\ Stored[3].summary = <<>>
    /\ Stored[3] = before[3]

-----------------------------------------------------------------------------
(* the category-override route: what it rejects                             *)

\* the request names no URL, names no category, or names a category that
\* is none of the four
RejectedOverride ==
    \/ op.url = None \/ op.url[1] = <<>>
    \/ op.arg = None \/ op.arg[1] = ""
    \/ op.arg[1] \notin ValidCategories

\* C36: a category-override request without URL, without category or with
\* a category that is none of the four valid ones is answered 400 with an
\* error, no method of the store was called for it, and the store is as
\* it was.
C36_InvalidOverrideRejected ==
    (op.name = "review_category" /\ RejectedOverride) =>
        /\ ret.status = 400
        /\ ret.error \in {"url is required", "category is required",
                          "invalid category"}
        /\ ret.store_calls = <<>>
        /\ Stored = before

\* C36 witness: the override of a stored article's category to a value
\* that is none of the four was answered 400 and the article kept its
\* category.
C36_Witness ==
    /\ op.name = "review_category"
    /\ op.url # None /\ op.arg # None
    /\ op.arg[1] # "" /\ op.arg[1] \notin ValidCategories
    /\ FirstWithUrl(before, op.url[1]) # 0
    /\ ret.status = 400
    /\ ret.error = "invalid category"
    /\ Stored = before

-----------------------------------------------------------------------------
(* send_message_to_slack: how often it calls the API                        *)

\* the attempt met a failure after which another attempt may follow: an
\* error response that reports a rate limit or a server error, HTTP 429 or
\* a status from 500 on, a network error, any other exception
RetryableFailure(o) ==
    \/ o.kind = "api_error"
          /\ o.error \in {"rate_limited", "server_error", "internal_error",
                           "upstream_server_error", "fatal_internal_error"}
    \/ o.kind = "http_error" /\ (o.status = 429 \/ o.status >= 500)
    \/ o.kind \in {"url_error", "exception"}

\* C37: without bot token or channel id no attempt is made and the preview
\* is returned as success.  Otherwise between 1 and 3 attempts are made;
\* every attempt but the last one made met a retryable failure; an attempt
\* that met another failure is the last one and failure is returned; an
\* attempt that was accepted is the last one and success is returned.
C37_BoundedRetries ==
    pc = "sent" =>
        IF ~slack_configured
        THEN /\ slack_result.attempts = 0
             /\ ~slack_result.raised
             /\ slack_result.success
             /\ slack_result.message[1] = "preview"
        ELSE /\ slack_result.attempts \in 1..3
             /\ \A n \in 1..(slack_result.attempts - 1) :
                   RetryableFailure(slack_outcomes[n])
             /\ LET last == slack_outcomes[slack_result.attempts]
                IN  /\ last.kind = "ok" =>
                          ~slack_result.raised /\ slack_result.success
                    /\ (last.kind # "ok" /\ ~RetryableFailure(last)) =>
                          ~slack_result.raised /\ ~slack_result.success
                    /\ slack_result.attempts = 3 =>
                          ~slack_result.raised
                             /\ (slack_result.success <=> last.kind = "ok")

\* C37 witness: HTTP 429 and a network error were each followed by another
\* attempt; the third attempt was refused for the channel and failure was
\* returned after 3 attempts.
C37_Witness ==
    /\ pc = "sent"
    /\ slack_configured
    /\ slack_outcomes[1].kind = "http_error" /\ slack_outcomes[1].status = 429
    /\ slack_outcomes[2].kind = "url_error"
    /\ slack_outcomes[3].kind = "api_error"
    /\ slack_outcomes[3].error = "channel_not_found"
    /\ slack_result.attempts = 3
    /\ ~slack_result.raised
    /\ ~slack_result.success

-----------------------------------------------------------------------------
(* format_slack_message: the articles in the message                        *)

\* the lines of a text: what stands between its line feeds
RECURSIVE LinesOfFrom(_, _, _)
LinesOfFrom(text, i, line) ==
    IF i > Len(text) THEN <<line>>
    ELSE IF text[i] = "\n"
    THEN <<line>> \o LinesOfFrom(text, i + 1, <<>>)
    ELSE LinesOfFrom(text, i + 1, Append(line, text[i]))

LinesOf(text) == LinesOfFrom(text, 1, <<>>)

\* the positions of the lines of the message that are the line of article a
\* (white space at the end of the message is stripped, so it is at the end
\* of both)
LinesFor(a) ==
    {k \in 1..Len(LinesOf(slack_text)) :
        rstrip(LinesOf(slack_text)[k]) = rstrip(LinkOrBareLine(a))}

\* the positions of the articles given whose line is that of article a
GivenLike(a) ==
    {j \in 1..Len(slack_articles) :
        rstrip(LinkOrBareLine(slack_articles[j])) = rstrip(LinkOrBareLine(a))}

\* C38: the message holds one line for every article given, whatever the
\* category of the article: the line of an article stands in the message
\* as often as articles with that line were given.
C38_EveryArticleOnce ==
    (pc = "formatted" /\ slack_articles # <<>>) =>
        \A i \in 1..Len(slack_articles) :
            Cardinality(LinesFor(slack_articles[i]))
                = Cardinality(GivenLike(slack_articles[i]))

-----------------------------------------------------------------------------
(* keyword_store: two update_* calls at the same time.  The routes run in   *)
(* the threads of the server and keyword_store takes no lock; a call is     *)
(* the steps load, open for writing, write and close.                       *)

Updaters == {1, 2}

\* a call that has not loaded yet
UpdateCall(setting, value) ==
    [pc |-> "called", setting |-> setting, value |-> value,
     data |-> EmptyDict, ok |-> FALSE, overtaken |-> FALSE]

\* what is on file when the calls start: nothing, an unreadable file, or
\* settings that differ from the defaults
UpdaterFiles ==
    {NoFile, CorruptFile, FileWith(EmptyDict),
     FileWith([query_keywords |-> <<"B">>, category_keywords |-> TestMapping,
               max_articles |-> 10, max_age_hours |-> 48])}

\* values to store; thread 1 calls update_query_keywords, thread 2 calls
\* update_max_articles or update_max_age_hours
UpdaterKeywords == {<<"A">>, <<"A", ",", "C">>}

UpdaterNumbers == {5, 7}

InitUpdaters ==
    /\ pc = "updaters"
    /\ articles = <<>>
    /\ keywords_by_category = DefaultMapping
    /\ title = <<>>
    /\ kept = <<>>
    /\ result = <<>>
    /\ category = CatchAll
    /\ CrawlIdle
    /\ CallsIdle
    /\ StoreIdle
    /\ SlackIdle
    /\ file \in UpdaterFiles
    /\ \E kw \in UpdaterKeywords, n \in UpdaterNumbers,
          setting \in {"max_articles", "max_age_hours"} :
          updaters = [t \in Updaters |->
                         IF t = 1 THEN UpdateCall("query_keywords", kw)
                         ELSE UpdateCall(setting, n)]

UpdaterFrame ==
    UNCHANGED <<pc, pureVars, crawlVars, callVars, storeVars, threadVars,
                slackVars>>

\* _load_keywords() and the assignment to the local dict
UpdateLoad(t) ==
    /\ pc = "updaters"
    /\ updaters[t].pc = "called"
    /\ updaters' = [updaters EXCEPT
                       ![t].pc = "loaded",
                       ![t].data = UpdateData(file, updaters[t].setting,
                                              updaters[t].value)]
    /\ UNCHANGED file
    /\ UpdaterFrame

\* lines 100-103: the directory is made and the file opened for writing;
\* an IOError here is answered False by lines 108-110
UpdateOpen(t, opened) ==
    /\ pc = "updaters"
    /\ updaters[t].pc = "loaded"
    /\ IF opened
       THEN /\ file' = OpenedForWriting(file)
            /\ updaters' = [updaters EXCEPT ![t].pc = "opened"]
       ELSE /\ UNCHANGED file
            /\ updaters' = [updaters EXCEPT ![t].pc = "done", ![t].ok = FALSE]
    /\ UpdaterFrame

\* lines 104-107: json.dump, the file is closed, True is returned.  A
\* writer that is overtaken by another one may leave a mix of both texts.
UpdateWrite(t, mixed) ==
    /\ pc = "updaters"
    /\ updaters[t].pc = "opened"
    /\ mixed => updaters[t].overtaken
    /\ file' = WrittenFile(updaters[t].data, mixed)
    /\ updaters' = [u \in Updaters |->
                       IF u = t
                       THEN [updaters[u] EXCEPT !.pc = "done", !.ok = TRUE]
                       ELSE IF updaters[u].pc = "opened"
                       THEN [updaters[u] EXCEPT !.overtaken = TRUE]
                       ELSE updaters[u]]
    /\ UpdaterFrame

\* lines 104 and 108-110: json.dump raises IOError, False is returned
UpdateWriteFails(t) ==
    /\ pc = "updaters"
    /\ updaters[t].pc = "opened"
    /\ updaters' = [updaters EXCEPT ![t].pc = "done", ![t].ok = FALSE]
    /\ UNCHANGED file
    /\ UpdaterFrame

NextUpdaters ==
    \/ \E t \in Updaters : UpdateLoad(t)
    \/ \E t \in Updaters, opened \in BOOLEAN : UpdateOpen(t, opened)
    \/ \E t \in Updaters, mixed \in BOOLEAN : UpdateWrite(t, mixed)
    \/ \E t \in Updaters : UpdateWriteFails(t)

SpecUpdaters == InitUpdaters /\ [][NextUpdaters]_vars

\* both calls have returned True
BothSucceeded ==
    /\ pc = "updaters"
    /\ \A t \in Updaters : updaters[t].pc = "done" /\ updaters[t].ok

\* C39: when the two calls, which update different settings, have both
\* returned True, the file can be read and holds the value of each of them.
C39_BothUpdatesPersist ==
    BothSucceeded =>
        /\ file.exists /\ file.valid
        /\ \A t \in Updaters :
              /\ updaters[t].setting \in DOMAIN file.data
              /\ file.data[updaters[t].setting] = updaters[t].value

=============================================================================
